---- MODULE Spec2Model ----
(***************************************************************************)
(* Panda Spa management system: the appointment store                      *)
(* (managers/appointments_manager.py), the part of the service catalog it  *)
(* validates against (managers/services_manager.py) and the shared         *)
(* utilities (utils/validators.py, utils/formatters.py).                   *)
(*                                                                         *)
(* Text is a sequence of one-character strings, so that lower(), title()   *)
(* and replace() are computed character by character.  A Python argument   *)
(* is a record [kind, val]: kind "str" (val is the text), "none" (the      *)
(* argument was omitted / None) or "int" (a non-text, non-None value).     *)
(* A datetime is a number of minutes; the wall clock is the variable now.  *)
(***************************************************************************)
EXTENDS Integers, Sequences, FiniteSets, TLC

VARIABLES
    services,       \* ServicesManager.services: ordered categories of ordered services
    appointments,   \* AppointmentsManager.appointments: ordered dict phone_id -> details
    default_currency, \* ServicesManager.default_currency
    now,            \* datetime.now(), in minutes
    last,           \* the last call made: its name, what it returned and what it showed
    file            \* the content of appointments.json on disk

vars == <<services, appointments, default_currency, now, last, file>>

----------------------------------------------------------------------------
(* Bounds of the model *)

\* the wall clock runs from tick 0 to tick MaxTime
MaxTime == 2

\* clock ticks in a minute: now has a finer resolution than the minute that
\* date text can name
TicksPerMinute == 2

----------------------------------------------------------------------------
(* Python values *)

Str(s) == [kind |-> "str", val |-> s]
None == [kind |-> "none", val |-> <<>>]
NotStr == [kind |-> "int", val |-> <<>>]
IsStr(x) == x.kind = "str"
IsNone(x) == x.kind = "none"

IntArg(n) == [isint |-> TRUE, n |-> n]
NotInt == [isint |-> FALSE, n |-> 0]

\* datetime | None, as parse_datetime returns it
NoDate == -1

----------------------------------------------------------------------------
(* str methods *)

LowerChar(c) ==
    CASE c = "A" -> "a"
      [] c = "B" -> "b"
      [] c = "C" -> "c"
      [] c = "D" -> "d"
      [] OTHER -> c

UpperChar(c) ==
    CASE c = "a" -> "A"
      [] c = "b" -> "B"
      [] c = "c" -> "C"
      [] c = "d" -> "D"
      [] OTHER -> c

IsCased(c) == LowerChar(c) # c \/ UpperChar(c) # c

\* str.lower()
StrLower(s) == [i \in 1..Len(s) |-> LowerChar(s[i])]

\* str.replace(old, new) for one-character old and new
StrReplace(s, old, new) == [i \in 1..Len(s) |-> IF s[i] = old THEN new ELSE s[i]]

\* str.title(): a cased character is upper-cased after an uncased one (or at
\* the start) and lower-cased after a cased one
StrTitle(s) ==
    [i \in 1..Len(s) |->
        IF i = 1 \/ ~IsCased(s[i - 1]) THEN UpperChar(s[i]) ELSE LowerChar(s[i])]

----------------------------------------------------------------------------
(* utils/formatters.py *)

\* formatters.normalize_name: slug -> Title Case with spaces
normalize_name(name) ==
    IF ~IsStr(name) THEN <<>> ELSE StrTitle(StrReplace(name.val, "_", " "))

\* formatters.denormalize_name: text -> slug
denormalize_name(name) ==
    IF ~IsStr(name) THEN <<>> ELSE StrReplace(StrLower(name.val), " ", "_")

\* the layouts of date text: the three parse_datetime accepts, and the one
\* with seconds that the JSON dump writes (DATE_FORMAT), which it does not
ParseFormats == <<"%Y-%m-%d %H:%M", "%d-%m-%Y %H:%M", "%d/%m/%Y %H:%M">>
DATE_FORMAT == "%Y-%m-%d %H:%M:%S"

\* date text written in a layout, naming the minute t (the second t, in the
\* layout with seconds)
DateText(layout, t) == [kind |-> "str", val |-> <<layout, t>>]

\* clock ticks in a second: the modelled minute is one second long, and the
\* clock (a datetime has microseconds) is finer than both
TicksPerSecond == TicksPerMinute

\* the ticks in the unit that text of a layout counts
TicksIn(fmt) == IF fmt = DATE_FORMAT THEN TicksPerSecond ELSE TicksPerMinute

\* datetime.strptime(text, fmt): the value, or NoDate for ValueError
strptime(text, fmt) == IF text[1] = fmt THEN text[2] * TicksIn(fmt) ELSE NoDate

\* datetime.strftime(DATE_FORMAT): the second, microseconds dropped
strftime_second(date_time) == date_time \div TicksPerSecond

\* datetime.strftime('%Y-%m-%d %H:%M'): the minute, seconds dropped
strftime_minute(date_time) == date_time \div TicksPerMinute

\* formatters.parse_datetime: the first format that parses, else None
parse_datetime(date_time) ==
    IF ~IsStr(date_time) THEN NoDate
    ELSE LET try[i \in 1..(Len(ParseFormats) + 1)] ==
                 IF i > Len(ParseFormats) THEN NoDate
                 ELSE IF strptime(date_time.val, ParseFormats[i]) # NoDate
                      THEN strptime(date_time.val, ParseFormats[i])
                      ELSE try[i + 1]
         IN try[1]

----------------------------------------------------------------------------
(* utils/validators.py *)

RECURSIVE DigitCount(_)
\* len(str(n)) for n >= 0
DigitCount(n) == IF n < 10 THEN 1 ELSE 1 + DigitCount(n \div 10)

\* variant of validate_phone_id that checks the length of str(phone_id),
\* sign included, before the sign
validate_phone_id_length_first(phone_id) ==
    IF ~phone_id.isint THEN "NOT_INT"
    ELSE IF (IF phone_id.n < 0 THEN 1 + DigitCount(-phone_id.n)
             ELSE DigitCount(phone_id.n)) # 8 THEN "WRONG_LEN"
    ELSE IF phone_id.n < 0 THEN "NEGATIVE"
    ELSE "OK"

\* variant of validate_phone_id without the check of the length
validate_phone_id_of_any_length(phone_id) ==
    IF ~phone_id.isint THEN "NOT_INT"
    ELSE IF phone_id.n < 0 THEN "NEGATIVE"
    ELSE "OK"

\* validators.validate_phone_id: the error, or "OK" for None
validate_phone_id(phone_id) ==
    IF ~phone_id.isint THEN "NOT_INT"
    ELSE IF phone_id.n < 0 THEN "NEGATIVE"
    ELSE IF DigitCount(phone_id.n) # 8 THEN "WRONG_LEN"
    ELSE "OK"

----------------------------------------------------------------------------
(* managers/services_manager.py *)

\* ServicesManager._normalize_name: text -> slug, None for a non-string
_normalize_name(name) ==
    IF ~IsStr(name) THEN None ELSE Str(StrLower(StrReplace(name.val, " ", "_")))

\* the (None, None) that _find_service_data returns for a miss
NotFoundData == [found |-> FALSE, category |-> <<>>, index |-> <<0, 0>>]

\* positions <<i, j>> of the services whose lower-cased key equals norm
ServiceHits(norm) ==
    UNION { { <<i, j>> : j \in { k \in 1..Len(services[i].items) :
                                   StrLower(services[i].items[k].name) = norm } }
            : i \in 1..Len(services) }

\* variant of _find_service_data that returns the last hit in catalog order
_find_last_service_data(name) ==
    IF ~IsStr(name) THEN NotFoundData
    ELSE LET hits == ServiceHits(_normalize_name(name).val)
         IN IF hits = {} THEN NotFoundData
            ELSE LET p == CHOOSE h \in hits :
                              \A q \in hits : h[1] > q[1] \/ (h[1] = q[1] /\ h[2] >= q[2])
                 IN [found |-> TRUE, category |-> services[p[1]].category,
                     index |-> p]

\* ServicesManager._find_service_data: the first hit in catalog order, as the
\* category key and the position of the details in it
_find_service_data(name) ==
    IF ~IsStr(name) THEN NotFoundData
    ELSE LET hits == ServiceHits(_normalize_name(name).val)
         IN IF hits = {} THEN NotFoundData
            ELSE LET p == CHOOSE h \in hits :
                              \A q \in hits : h[1] < q[1] \/ (h[1] = q[1] /\ h[2] <= q[2])
                 IN [found |-> TRUE, category |-> services[p[1]].category,
                     index |-> p]

\* truth value of "category and details": a found category key that is not
\* the empty string (details is a dict of four keys, never empty)
CategoryAndDetails(data) == data.found /\ data.category # <<>>

\* ServicesManager.service_exists
service_exists(service_name) ==
    IF ~IsStr(service_name) THEN FALSE
    ELSE CategoryAndDetails(_find_service_data(_normalize_name(service_name)))

\* position of a category key in the catalog, 0 when absent
CategoryIndex(svcs, category) ==
    IF \E i \in 1..Len(svcs) : svcs[i].category = category
    THEN CHOOSE i \in 1..Len(svcs) : svcs[i].category = category
    ELSE 0

\* isinstance(x, (int, float)) and the comparison that follows it
IsNumber(x) == x.isint

\* a category's services without the one at position j
WithoutItem(items, j) == [k \in 1..(Len(items) - 1) |-> IF k < j THEN items[k] ELSE items[k + 1]]

\* variant of add_service that creates the category before it validates the
\* price and the duration
add_service_creating_first(category, name, price, duration, description, currency) ==
    IF ~(IsStr(category) /\ IsStr(name) /\ IsStr(description) /\ IsStr(currency))
    THEN [services |-> services, result |-> "PROVIDED_NOT_STR"]
    ELSE LET norm_category == _normalize_name(category).val
             norm_name == _normalize_name(name).val
             withCat == IF CategoryIndex(services, norm_category) = 0
                        THEN Append(services, [category |-> norm_category, items |-> <<>>])
                        ELSE services
             c == CategoryIndex(withCat, norm_category)
         IN IF ~IsNumber(price) \/ price.n < 0
            THEN [services |-> withCat, result |-> "NEGATIVE_NUM_NOT_ALLOWED"]
            ELSE IF ~IsNumber(duration) \/ duration.n <= 0
            THEN [services |-> withCat, result |-> "NEGATIVE_NUM_NOT_ALLOWED"]
            ELSE IF \E k \in 1..Len(withCat[c].items) : withCat[c].items[k].name = norm_name
            THEN [services |-> withCat, result |-> "ALREADY_EXIST"]
            ELSE [services |->
                      [withCat EXCEPT ![c].items =
                          Append(@, [name |-> norm_name,
                                     price |-> price.n,
                                     currency |-> IF ~IsNone(currency) THEN currency.val
                                                  ELSE default_currency,
                                     duration |-> duration.n,
                                     description |-> description.val])],
                  result |-> "SERVICE_ADDED"]

\* ServicesManager.add_service: the catalog afterwards and the message returned
add_service_outcome(category, name, price, duration, description, currency) ==
    IF ~(IsStr(category) /\ IsStr(name) /\ IsStr(description) /\ IsStr(currency))
    THEN [services |-> services, result |-> "PROVIDED_NOT_STR"]
    ELSE IF ~IsNumber(price) \/ price.n < 0
    THEN [services |-> services, result |-> "NEGATIVE_NUM_NOT_ALLOWED"]
    ELSE IF ~IsNumber(duration) \/ duration.n <= 0
    THEN [services |-> services, result |-> "NEGATIVE_NUM_NOT_ALLOWED"]
    ELSE LET norm_category == _normalize_name(category).val
             norm_name == _normalize_name(name).val
             withCat == IF CategoryIndex(services, norm_category) = 0
                        THEN Append(services, [category |-> norm_category, items |-> <<>>])
                        ELSE services
             c == CategoryIndex(withCat, norm_category)
         IN IF \E k \in 1..Len(withCat[c].items) : withCat[c].items[k].name = norm_name
            THEN [services |-> withCat, result |-> "ALREADY_EXIST"]
            ELSE [services |->
                      [withCat EXCEPT ![c].items =
                          Append(@, [name |-> norm_name,
                                     price |-> price.n,
                                     currency |-> IF ~IsNone(currency) THEN currency.val
                                                  ELSE default_currency,
                                     duration |-> duration.n,
                                     description |-> description.val])],
                  result |-> "SERVICE_ADDED"]

\* ServicesManager.remove_service: the catalog afterwards and the message returned
remove_service_outcome(name) ==
    IF ~IsStr(name) THEN [services |-> services, result |-> "PROVIDED_NOT_STR"]
    ELSE LET data == _find_service_data(name)
             norm_name == _normalize_name(name).val
         IN IF ~CategoryAndDetails(data)
            THEN [services |-> services, result |-> "SERVICE_NOT_FOUND"]
            ELSE LET c == data.index[1]
                     keys == { k \in 1..Len(services[c].items) :
                                 services[c].items[k].name = norm_name }
                 IN IF keys = {}
                    THEN [services |-> services, result |-> "KeyError"]
                    ELSE [services |->
                              [services EXCEPT ![c].items =
                                  WithoutItem(@, CHOOSE k \in keys : TRUE)],
                          result |-> "SERVICE_REMOVED"]

\* the catalog with a field of the service at position k of category c set
SetField(svcs, c, k, field, value) ==
    [svcs EXCEPT ![c].items[k] = [@ EXCEPT ![field] = value]]

\* position of a service key in a category, 0 when absent
ItemIndex(items, norm_name) ==
    IF \E k \in 1..Len(items) : items[k].name = norm_name
    THEN CHOOSE k \in 1..Len(items) : items[k].name = norm_name
    ELSE 0

\* variant of update_service that validates every supplied field before it
\* writes any
update_service_checking_first(category, name, price, duration, description, currency) ==
    IF ~(IsStr(category) /\ IsStr(name))
    THEN [services |-> services, result |-> "PROVIDED_NOT_STR"]
    ELSE LET c == CategoryIndex(services, _normalize_name(category).val)
             k == IF c = 0 THEN 0
                  ELSE ItemIndex(services[c].items, _normalize_name(name).val)
         IN IF c = 0 THEN [services |-> services, result |-> "CATEGORY_NOT_FOUND"]
            ELSE IF k = 0 THEN [services |-> services, result |-> "SERVICE_NOT_FOUND_IN"]
            ELSE IF price # None /\ (~IsNumber(price) \/ price.n < 0)
            THEN [services |-> services, result |-> "NEGATIVE_NUM_NOT_ALLOWED"]
            ELSE IF duration # None /\ (~IsNumber(duration) \/ duration.n <= 0)
            THEN [services |-> services, result |-> "NEGATIVE_NUM_NOT_ALLOWED"]
            ELSE IF description # None /\ ~IsStr(description)
            THEN [services |-> services, result |-> "PROVIDED_NOT_STR"]
            ELSE IF currency # None /\ ~IsStr(currency)
            THEN [services |-> services, result |-> "PROVIDED_NOT_STR"]
            ELSE LET s1 == IF price = None THEN services
                           ELSE SetField(services, c, k, "price", price.n)
                     s2 == IF duration = None THEN s1
                           ELSE SetField(s1, c, k, "duration", duration.n)
                     s3 == IF description = None THEN s2
                           ELSE SetField(s2, c, k, "description", description.val)
                     s4 == IF currency = None THEN s3
                           ELSE SetField(s3, c, k, "currency", currency.val)
                 IN [services |-> s4, result |-> "SERVICE_UPDATED"]

\* ServicesManager.update_service: the catalog afterwards and the message
\* returned; each supplied field is checked and written in turn
update_service_outcome(category, name, price, duration, description, currency) ==
    IF ~(IsStr(category) /\ IsStr(name))
    THEN [services |-> services, result |-> "PROVIDED_NOT_STR"]
    ELSE LET c == CategoryIndex(services, _normalize_name(category).val)
             k == IF c = 0 THEN 0
                  ELSE ItemIndex(services[c].items, _normalize_name(name).val)
         IN IF c = 0 THEN [services |-> services, result |-> "CATEGORY_NOT_FOUND"]
            ELSE IF k = 0 THEN [services |-> services, result |-> "SERVICE_NOT_FOUND_IN"]
            ELSE IF price # None /\ (~IsNumber(price) \/ price.n < 0)
            THEN [services |-> services, result |-> "NEGATIVE_NUM_NOT_ALLOWED"]
            ELSE LET s1 == IF price = None THEN services
                           ELSE SetField(services, c, k, "price", price.n)
                 IN IF duration # None /\ (~IsNumber(duration) \/ duration.n <= 0)
                    THEN [services |-> s1, result |-> "NEGATIVE_NUM_NOT_ALLOWED"]
                    ELSE LET s2 == IF duration = None THEN s1
                                   ELSE SetField(s1, c, k, "duration", duration.n)
                         IN IF description # None /\ ~IsStr(description)
                            THEN [services |-> s2, result |-> "PROVIDED_NOT_STR"]
                            ELSE LET s3 == IF description = None THEN s2
                                           ELSE SetField(s2, c, k, "description",
                                                         description.val)
                                 IN IF currency # None /\ ~IsStr(currency)
                                    THEN [services |-> s3, result |-> "PROVIDED_NOT_STR"]
                                    ELSE [services |->
                                              IF currency = None THEN s3
                                              ELSE SetField(s3, c, k, "currency",
                                                            currency.val),
                                          result |-> "SERVICE_UPDATED"]

\* ServicesManager.update_service_price: the catalog afterwards and the
\* message returned; the service is the one _find_service_data returns
update_service_price_outcome(name, new_price, currency) ==
    IF ~IsStr(name) THEN [services |-> services, result |-> "PROVIDED_NOT_STR"]
    ELSE LET data == _find_service_data(name)
             c == data.index[1]
             k == data.index[2]
         IN IF ~data.found THEN [services |-> services, result |-> "SERVICE_NOT_FOUND"]
            ELSE IF new_price # None /\ (~IsNumber(new_price) \/ new_price.n < 0)
            THEN [services |-> services, result |-> "NEGATIVE_NUM_NOT_ALLOWED"]
            ELSE LET s1 == IF new_price = None THEN services
                           ELSE SetField(services, c, k, "price", new_price.n)
                 IN IF currency # None /\ ~IsStr(currency)
                    THEN [services |-> s1, result |-> "PROVIDED_NOT_STR"]
                    ELSE [services |->
                              IF currency = None THEN s1
                              ELSE SetField(s1, c, k, "currency", currency.val),
                          result |-> "PRICE_UPDATED"]

\* variant of change_currency_for_all that leaves the default currency as
\* it is
change_currency_of_services(new_currency) ==
    IF ~IsStr(new_currency)
    THEN [services |-> services, default_currency |-> default_currency,
          result |-> "PROVIDED_NOT_STR"]
    ELSE [services |->
              [i \in 1..Len(services) |->
                  [services[i] EXCEPT !.items =
                      [k \in 1..Len(@) |-> [@[k] EXCEPT !.currency = new_currency.val]]]],
          default_currency |-> default_currency,
          result |-> "CURRENCY_CHANGED"]

\* ServicesManager.change_currency_for_all: the catalog and the default
\* currency afterwards, and the message returned
change_currency_for_all_outcome(new_currency) ==
    IF ~IsStr(new_currency)
    THEN [services |-> services, default_currency |-> default_currency,
          result |-> "PROVIDED_NOT_STR"]
    ELSE [services |->
              [i \in 1..Len(services) |->
                  [services[i] EXCEPT !.items =
                      [k \in 1..Len(@) |-> [@[k] EXCEPT !.currency = new_currency.val]]]],
          default_currency |-> new_currency.val,
          result |-> "CURRENCY_CHANGED"]

----------------------------------------------------------------------------
(* managers/appointments_manager.py *)

\* phone ids that are keys of the store
Keys(appts) == { appts[i].phone_id : i \in 1..Len(appts) }

\* position of a key in the store
IndexOf(appts, id) == CHOOSE i \in 1..Len(appts) : appts[i].phone_id = id

\* self.appointments[phone_id]
Details(appts, id) == appts[IndexOf(appts, id)]

\* variant of WithoutKey that deletes the oldest entry whatever the key
WithoutFirst(appts, id) == Tail(appts)

\* del self.appointments[phone_id]
WithoutKey(appts, id) ==
    LET j == IndexOf(appts, id)
    IN [k \in 1..(Len(appts) - 1) |-> IF k < j THEN appts[k] ELSE appts[k + 1]]

\* AppointmentsManager._format_appointment: the text block, as its parts
_format_appointment(details) ==
    [phone_id |-> details.phone_id,
     name |-> normalize_name(Str(details.first_name \o <<" ">> \o details.last_name)),
     service |-> normalize_name(Str(details.service_name)),
     date |-> strftime_minute(details.date_time)]

\* variant of in_the_past that also turns away a date equal to the clock
in_the_past_or_now(date_time_parsed) == date_time_parsed <= now

\* variant of in_the_past that lets every date through
never_in_the_past(date_time_parsed) == FALSE

\* date_time_parsed < datetime.now()
in_the_past(date_time_parsed) == date_time_parsed < now

\* variant of add_appointment without the duplicate-id test: the appointment
\* is appended even when the id is already a key
add_appointment_overwriting(appts, phone_id, firstname, lastname, service_name, date_time) ==
    IF ~(IsStr(firstname) /\ IsStr(lastname) /\ IsStr(service_name) /\ IsStr(date_time))
    THEN [appointments |-> appts, result |-> "PROVIDED_NOT_STR"]
    ELSE IF validate_phone_id(phone_id) # "OK"
    THEN [appointments |-> appts, result |-> validate_phone_id(phone_id)]
    ELSE IF ~service_exists(service_name)
    THEN [appointments |-> appts, result |-> "SERVICE_NOT_FOUND"]
    ELSE IF parse_datetime(date_time) = NoDate
    THEN [appointments |-> appts, result |-> "INVALID_DATE_FORMAT"]
    ELSE IF in_the_past(parse_datetime(date_time))
    THEN [appointments |-> appts, result |-> "PAST_APPT_NOT_ALLOWED"]
    ELSE [appointments |->
              Append(appts,
                     [phone_id |-> phone_id.n,
                      first_name |-> StrLower(firstname.val),
                      last_name |-> StrLower(lastname.val),
                      service_name |-> normalize_name(service_name),
                      date_time |-> parse_datetime(date_time)]),
          result |-> "ADDED"]

\* AppointmentsManager.add_appointment: the store afterwards and the message
add_appointment_outcome(appts, phone_id, firstname, lastname, service_name, date_time) ==
    IF ~(IsStr(firstname) /\ IsStr(lastname) /\ IsStr(service_name) /\ IsStr(date_time))
    THEN [appointments |-> appts, result |-> "PROVIDED_NOT_STR"]
    ELSE IF validate_phone_id(phone_id) # "OK"
    THEN [appointments |-> appts, result |-> validate_phone_id(phone_id)]
    ELSE IF phone_id.n \in Keys(appts)
    THEN [appointments |-> appts, result |-> "ALREADY_EXIST"]
    ELSE IF ~service_exists(service_name)
    THEN [appointments |-> appts, result |-> "SERVICE_NOT_FOUND"]
    ELSE LET date_time_parsed == parse_datetime(date_time)
         IN IF date_time_parsed = NoDate
            THEN [appointments |-> appts, result |-> "INVALID_DATE_FORMAT"]
            ELSE IF in_the_past(date_time_parsed)
            THEN [appointments |-> appts, result |-> "PAST_APPT_NOT_ALLOWED"]
            ELSE [appointments |->
                      Append(appts,
                             [phone_id |-> phone_id.n,
                              first_name |-> StrLower(firstname.val),
                              last_name |-> StrLower(lastname.val),
                              service_name |-> normalize_name(service_name),
                              date_time |-> date_time_parsed]),
                  result |-> "ADDED"]

\* AppointmentsManager.update_appointment, lines 301-331: the appointment after
\* the field-by-field writes, and the message returned
update_fields(appointment, firstname, lastname, service_name, date_time) ==
    LET a1 == IF IsStr(firstname)
              THEN [appointment EXCEPT !.first_name = StrLower(firstname.val)]
              ELSE appointment
        a2 == IF IsStr(lastname)
              THEN [a1 EXCEPT !.last_name = StrLower(lastname.val)]
              ELSE a1
        exists == service_exists(service_name)
        a3 == IF ~IsNone(service_name) /\ exists
              THEN [a2 EXCEPT !.service_name = normalize_name(service_name)]
              ELSE a2
        date_time_parsed == parse_datetime(date_time)
        a4 == [a3 EXCEPT !.date_time = date_time_parsed]
    IN IF ~IsNone(firstname) /\ ~IsStr(firstname)
       THEN [appointment |-> appointment, result |-> "PROVIDED_NOT_STR"]
       ELSE IF ~IsNone(lastname) /\ ~IsStr(lastname)
       THEN [appointment |-> a1, result |-> "PROVIDED_NOT_STR"]
       ELSE IF ~IsNone(service_name) /\ ~exists
       THEN [appointment |-> a2,
             result |-> IF IsStr(service_name) THEN "SERVICE_NOT_FOUND"
                        ELSE "AttributeError"]
       ELSE IF IsNone(date_time)
       THEN [appointment |-> a3, result |-> "UPDATED"]
       ELSE IF date_time_parsed = NoDate
       THEN [appointment |-> a3, result |-> "INVALID_DATE_FORMAT"]
       ELSE IF in_the_past(date_time_parsed)
       THEN [appointment |-> a3, result |-> "PAST_APPT_NOT_ALLOWED"]
       ELSE [appointment |-> a4, result |-> "UPDATED"]

\* variant of update_appointment that writes a whole new appointment: the
\* names that the call omits are blanked instead of kept
update_appointment_replacing(appts, phone_id, firstname, lastname, service_name, date_time) ==
    IF validate_phone_id(phone_id) # "OK"
    THEN [appointments |-> appts, result |-> validate_phone_id(phone_id)]
    ELSE IF phone_id.n \notin Keys(appts)
    THEN [appointments |-> appts, result |-> "APPOINTMENT_DATA_NOT_FOUND"]
    ELSE LET i == IndexOf(appts, phone_id.n)
             u == update_fields([appts[i] EXCEPT !.first_name = <<>>, !.last_name = <<>>],
                                firstname, lastname, service_name, date_time)
         IN [appointments |-> [appts EXCEPT ![i] = u.appointment],
             result |-> u.result]

\* AppointmentsManager.update_appointment: the store afterwards and the message
update_appointment_outcome(appts, phone_id, firstname, lastname, service_name, date_time) ==
    IF validate_phone_id(phone_id) # "OK"
    THEN [appointments |-> appts, result |-> validate_phone_id(phone_id)]
    ELSE IF phone_id.n \notin Keys(appts)
    THEN [appointments |-> appts, result |-> "APPOINTMENT_DATA_NOT_FOUND"]
    ELSE LET i == IndexOf(appts, phone_id.n)
             u == update_fields(appts[i], firstname, lastname,
                                service_name, date_time)
         IN [appointments |-> [appts EXCEPT ![i] = u.appointment],
             result |-> u.result]

\* AppointmentsManager.remove_appointment: the store afterwards and the message
remove_appointment_outcome(appts, phone_id) ==
    IF validate_phone_id(phone_id) # "OK"
    THEN [appointments |-> appts, result |-> validate_phone_id(phone_id)]
    ELSE IF phone_id.n \notin Keys(appts)
    THEN [appointments |-> appts, result |-> "APPOINTMENT_DATA_NOT_FOUND"]
    ELSE [appointments |-> WithoutKey(appts, phone_id.n), result |-> "REMOVED"]

\* AppointmentsManager.find_appointment: the message and the block returned
find_appointment_outcome(appts, phone_id) ==
    IF validate_phone_id(phone_id) # "OK"
    THEN [result |-> validate_phone_id(phone_id), out |-> <<>>]
    ELSE IF phone_id.n \notin Keys(appts)
    THEN [result |-> "APPOINTMENT_DATA_NOT_FOUND", out |-> <<>>]
    ELSE [result |-> "FOUND",
          out |-> <<_format_appointment(Details(appts, phone_id.n))>>]

\* one step of a stable sort: x goes after every element whose date_time is
\* not later than its own
InsertByDate(sorted, x) ==
    LET n == Cardinality({ k \in 1..Len(sorted) : sorted[k].date_time <= x.date_time })
    IN [k \in 1..(Len(sorted) + 1) |->
           IF k <= n THEN sorted[k] ELSE IF k = n + 1 THEN x ELSE sorted[k - 1]]

\* variant of sorted_by_date_time that keeps the order of the store
in_store_order(data) == data

RECURSIVE sorted_by_date_time(_)
\* sorted(data.items(), key=lambda item: item[1]["date_time"])
sorted_by_date_time(data) ==
    IF data = <<>> THEN <<>>
    ELSE InsertByDate(sorted_by_date_time(SubSeq(data, 1, Len(data) - 1)), data[Len(data)])

\* AppointmentsManager.show_appointments: what is printed, as a message (when
\* there is nothing to list) and the appointment blocks in the order printed
show_appointments_outcome(appts, include_past) ==
    IF appts = <<>>
    THEN [result |-> "APPOINTMENTS_NOT_FOUND", out |-> <<>>]
    ELSE LET data == IF include_past THEN appts
                     ELSE SelectSeq(appts, LAMBDA details : details.date_time >= now)
         IN IF data = <<>>
            THEN [result |-> IF ~include_past THEN "NO_UPCOMING"
                             ELSE "APPOINTMENTS_NOT_FOUND",
                  out |-> <<>>]
            ELSE LET sorted_appointments == sorted_by_date_time(data)
                 IN [result |-> "SHOWN",
                     out |-> [k \in 1..Len(sorted_appointments) |->
                                 _format_appointment(sorted_appointments[k])]]

----------------------------------------------------------------------------
(* managers/appointments_manager.py: JSON persistence.  A JSON document is   *)
(* modelled after parsing: what kind of value it is and, for an object, its *)
(* members in order, each a key (text) and the appointment object under it. *)

DigitChars == <<"0", "1", "2", "3", "4", "5", "6", "7", "8", "9">>
IsDigit(c) == \E d \in 1..10 : DigitChars[d] = c
DigitValue(c) == (CHOOSE d \in 1..10 : DigitChars[d] = c) - 1

RECURSIVE str_of_int(_)
\* json.dump writes an int key n >= 0 as the text str(n)
str_of_int(n) ==
    IF n < 10 THEN <<DigitChars[n + 1]>>
    ELSE Append(str_of_int(n \div 10), DigitChars[(n % 10) + 1])

\* int(text) raised ValueError
NoInt == -1

RECURSIVE int_of_str(_)
\* int(text) for text without sign or blanks: the number, or NoInt
int_of_str(text) ==
    IF text = <<>> \/ \E i \in 1..Len(text) : ~IsDigit(text[i]) THEN NoInt
    ELSE IF Len(text) = 1 THEN DigitValue(text[1])
    ELSE 10 * int_of_str(SubSeq(text, 1, Len(text) - 1)) + DigitValue(text[Len(text)])

\* no file of that name
MissingFile == [kind |-> "missing", data |-> <<>>]

\* variant of save_appointments_to_json that writes the dates in the first
\* layout of parse_datetime, which has no seconds
save_appointments_without_seconds(appts) ==
    [file |-> [kind |-> "dict",
               data |-> [i \in 1..Len(appts) |->
                            [key |-> str_of_int(appts[i].phone_id),
                             details |->
                                 [first_name |-> appts[i].first_name,
                                  last_name |-> appts[i].last_name,
                                  service_name |-> appts[i].service_name,
                                  date_time |-> <<ParseFormats[1],
                                                  strftime_minute(appts[i].date_time)>>]]]],
     result |-> "SAVED"]

\* AppointmentsManager.save_appointments_to_json: the file written and the
\* message
save_appointments_outcome(appts) ==
    [file |-> [kind |-> "dict",
               data |-> [i \in 1..Len(appts) |->
                            [key |-> str_of_int(appts[i].phone_id),
                             details |->
                                 [first_name |-> appts[i].first_name,
                                  last_name |-> appts[i].last_name,
                                  service_name |-> appts[i].service_name,
                                  date_time |-> <<DATE_FORMAT,
                                                  strftime_second(appts[i].date_time)>>]]]],
     result |-> "SAVED"]

\* fixed_data[key] = details: a new key goes last, a key already there keeps
\* its place
DictSet(d, key, details) ==
    IF key \in Keys(d) THEN [d EXCEPT ![IndexOf(d, key)] = details]
    ELSE Append(d, details)

RECURSIVE fixed_data(_)
\* the loop of load_appointments_from_json over the members of the object:
\* the mapping built, or the exception that int() or strptime() raised
fixed_data(data) ==
    IF data = <<>> THEN [raised |-> "", appointments |-> <<>>]
    ELSE LET before == fixed_data(SubSeq(data, 1, Len(data) - 1))
             member == data[Len(data)]
             id == int_of_str(member.key)
             date_time == strptime(member.details.date_time, DATE_FORMAT)
         IN IF before.raised # "" THEN before
            ELSE IF id = NoInt \/ date_time = NoDate
            THEN [raised |-> "ValueError", appointments |-> before.appointments]
            ELSE [raised |-> "",
                  appointments |->
                      DictSet(before.appointments, id,
                              [phone_id |-> id,
                               first_name |-> member.details.first_name,
                               last_name |-> member.details.last_name,
                               service_name |-> member.details.service_name,
                               date_time |-> date_time])]

\* AppointmentsManager.load_appointments_from_json: the store afterwards and
\* the message returned, or the name of the exception that leaves the call
load_appointments_outcome(appts, f) ==
    IF f.kind = "missing"
    THEN [appointments |-> appts, result |-> "APPOINTMENT_DATA_NOT_FOUND"]
    ELSE IF f.kind = "malformed"
    THEN [appointments |-> appts, result |-> "ERROR_DECODING_JSON"]
    ELSE IF f.kind # "dict"
    THEN [appointments |-> appts, result |-> "INVALID_JSON_STRUCTURE"]
    ELSE LET fixed == fixed_data(f.data)
         IN IF fixed.raised # ""
            THEN [appointments |-> appts, result |-> fixed.raised]
            ELSE [appointments |-> fixed.appointments, result |-> "LOADED"]

----------------------------------------------------------------------------
(* managers/recommendations_manager.py *)

\* RecommendationsManager._normalize_name: the name as it is displayed
recommendations_normalize_name(name) == StrTitle(StrReplace(name, "_", " "))

\* RecommendationsManager._validate_phone_id: the error, or "OK" for None
recommendations_validate_phone_id(appts, phone_id) ==
    IF validate_phone_id(phone_id) # "OK" THEN validate_phone_id(phone_id)
    ELSE IF phone_id.n \notin Keys(appts) THEN "APPOINTMENT_DATA_NOT_FOUND"
    ELSE "OK"

RECURSIVE Counter(_)
\* Counter(names): each distinct name with the number of its occurrences,
\* in the order of first occurrence
Counter(names) ==
    IF names = <<>> THEN <<>>
    ELSE LET before == Counter(SubSeq(names, 1, Len(names) - 1))
             x == names[Len(names)]
         IN IF \E k \in 1..Len(before) : before[k].service = x
            THEN [k \in 1..Len(before) |->
                     IF before[k].service = x
                     THEN [before[k] EXCEPT !.count = @ + 1]
                     ELSE before[k]]
            ELSE Append(before, [service |-> x, count |-> 1])

\* variant of InsertByCount that puts x before the elements of equal count
InsertBeforeTies(sorted, x) ==
    LET n == Cardinality({ k \in 1..Len(sorted) : sorted[k].count > x.count })
    IN [k \in 1..(Len(sorted) + 1) |->
           IF k <= n THEN sorted[k] ELSE IF k = n + 1 THEN x ELSE sorted[k - 1]]

\* one step of a stable sort by descending count: x goes after every
\* element whose count is not smaller than its own
InsertByCount(sorted, x) ==
    LET n == Cardinality({ k \in 1..Len(sorted) : sorted[k].count >= x.count })
    IN [k \in 1..(Len(sorted) + 1) |->
           IF k <= n THEN sorted[k] ELSE IF k = n + 1 THEN x ELSE sorted[k - 1]]

RECURSIVE SortedByCount(_)
SortedByCount(counts) ==
    IF counts = <<>> THEN <<>>
    ELSE InsertByCount(SortedByCount(SubSeq(counts, 1, Len(counts) - 1)),
                       counts[Len(counts)])

\* variant of most_common that does not sort: the first n names counted
first_counted(counts, n) == SubSeq(counts, 1, IF n < Len(counts) THEN n ELSE Len(counts))

\* Counter.most_common(n) for n > 0
most_common(counts, n) ==
    LET sorted == SortedByCount(counts)
    IN SubSeq(sorted, 1, IF n < Len(sorted) THEN n ELSE Len(sorted))

\* RecommendationsManager.get_popular_services
get_popular_services_outcome(appts, top_n) ==
    IF ~top_n.isint \/ top_n.n <= 0 THEN <<>>
    ELSE LET services_booked == [i \in 1..Len(appts) |-> appts[i].service_name]
         IN IF services_booked = <<>> THEN <<>>
            ELSE most_common(Counter(services_booked), top_n.n)

\* the default of top_n
DefaultTopN == 3

\* the slice other_services[:3]
OtherServicesShown == 3

\* the slice final_recommendations[:5]
RecommendationsShown == 5

\* the elements of a sequence
Range(q) == { q[k] : k \in 1..Len(q) }

\* variant of list(a_set)[:n] that takes no element
NoPrefix(a_set, n) == {<<>>}

\* list(a_set)[:n]: the set has no order of its own, so any n of its
\* elements (all of them, if it has fewer) in any order
ListPrefixes(a_set, n) ==
    LET m == IF Cardinality(a_set) < n THEN Cardinality(a_set) ELSE n
    IN { q \in [1..m -> a_set] : \A i, j \in 1..m : q[i] = q[j] => i = j }

\* RecommendationsManager.recommend_for_customer: what may be printed, as a
\* message and the numbered lines (the displayed name, and whether it
\* carries the mark of a popular service)
recommend_for_customer_outcomes(appts, phone_id) ==
    IF recommendations_validate_phone_id(appts, phone_id) # "OK"
    THEN {[result |-> recommendations_validate_phone_id(appts, phone_id), out |-> <<>>]}
    ELSE LET target_appointment == Details(appts, phone_id.n)
             customer_services ==
                 { appts[i].service_name : i \in
                     { j \in 1..Len(appts) :
                         /\ appts[j].first_name = target_appointment.first_name
                         /\ appts[j].last_name = target_appointment.last_name } }
             all_services == { appts[i].service_name : i \in 1..Len(appts) }
             untried_services == all_services \ customer_services
             popular_services ==
                 LET popular == get_popular_services_outcome(appts, IntArg(DefaultTopN))
                 IN [k \in 1..Len(popular) |-> popular[k].service]
             recommended_from_popular ==
                 SelectSeq(popular_services, LAMBDA x : x \in untried_services)
             other_services == untried_services \ Range(recommended_from_popular)
         IN IF untried_services = {}
            THEN {[result |-> "TRIED_ALL", out |-> <<>>]}
            ELSE { LET final_recommendations == recommended_from_popular \o other
                       shown == SubSeq(final_recommendations, 1,
                                       IF Len(final_recommendations) < RecommendationsShown
                                       THEN Len(final_recommendations)
                                       ELSE RecommendationsShown)
                       favorite_services ==
                           SelectSeq(popular_services, LAMBDA x : x \in customer_services)
                   IN IF final_recommendations = <<>>
                      \* the branch that prints the customer's favourites
                      THEN [result |-> "FAVORITES",
                            out |-> [k \in 1..Len(favorite_services) |->
                                        [name |-> recommendations_normalize_name(
                                                      favorite_services[k]),
                                         popular |-> TRUE]]]
                      ELSE [result |-> "RECOMMENDED",
                            out |-> [k \in 1..Len(shown) |->
                                        [name |-> recommendations_normalize_name(shown[k]),
                                         popular |->
                                             shown[k] \in Range(recommended_from_popular)]]]
                   : other \in ListPrefixes(other_services, OtherServicesShown) }

----------------------------------------------------------------------------
(* managers/finance_manager.py.  An amount of money is a whole number of    *)
(* thousandths, so that round(x, 2) has a digit to round away.              *)

\* ServicesManager.get_service_data: whether details are returned, and where
\* they are in the catalog
get_service_data(name) ==
    IF ~IsStr(name) THEN NotFoundData ELSE _find_service_data(name)

\* round(x, 2): to the nearest hundredth, a half going to the even one
round2(x) ==
    LET r == x % 10
        down == x - r
    IN IF r < 5 THEN down
       ELSE IF r > 5 THEN down + 10
       ELSE IF (down \div 10) % 2 = 0 THEN down ELSE down + 10

RECURSIVE income_of(_)
\* the loop of get_total_income: the price of the service of each
\* appointment whose service_name resolves in the catalog
income_of(appts) ==
    IF appts = <<>> THEN 0
    ELSE LET service_data == get_service_data(Str(appts[Len(appts)].service_name))
         IN income_of(SubSeq(appts, 1, Len(appts) - 1))
            + (IF service_data.found
               THEN services[service_data.index[1]].items[service_data.index[2]].price
               ELSE 0)

\* variant of get_total_income that leaves out the appointments that the
\* clock has passed
get_total_income_upcoming ==
    round2(income_of(SelectSeq(appointments, LAMBDA details : details.date_time >= now)))

\* FinanceManager.get_total_income
get_total_income == round2(income_of(appointments))

\* data/expenses_data.py: hot_water, tea_supplies, cosmetic_supplies,
\* maintenance
expenses_data == <<200000, 100000, 200000, 150000>>

RECURSIVE get_total_expenses(_)
\* FinanceManager.get_total_expenses: sum(self.expenses.values())
get_total_expenses(expenses) ==
    IF expenses = <<>> THEN 0
    ELSE get_total_expenses(Tail(expenses)) + Head(expenses)

\* FinanceManager.get_net_profit
get_net_profit(expenses) == round2(get_total_income - get_total_expenses(expenses))

\* a profit margin of 0, and one of num / den per cent
ZeroMargin == [num |-> 0, den |-> 1]

\* variant of show_finances that divides by the income whatever it is
show_finances_dividing(expenses) ==
    [income |-> get_total_income,
     expenses |-> get_total_expenses(expenses),
     net_profit |-> get_net_profit(expenses),
     profit_margin |-> [num |-> get_net_profit(expenses) * 100, den |-> get_total_income],
     result |-> IF get_total_income = 0 THEN "ZeroDivisionError" ELSE "SHOWN"]

\* FinanceManager.show_finances: the figures of the report
show_finances_outcome(expenses) ==
    [income |-> get_total_income,
     expenses |-> get_total_expenses(expenses),
     net_profit |-> get_net_profit(expenses),
     profit_margin |-> IF get_total_income > 0
                       THEN [num |-> get_net_profit(expenses) * 100, den |-> get_total_income]
                       ELSE ZeroMargin,
     result |-> "SHOWN"]

----------------------------------------------------------------------------
(* Arguments the calls are made with *)

\* the two phone ids that appointments are made under
StoredPhoneIdArgs == {IntArg(10000000), IntArg(99999999)}

\* furthermore one of 7 digits
PhoneIdArgs == StoredPhoneIdArgs \cup {IntArg(9999999)}

\* furthermore a negative one and a non-integer
AnyPhoneIdArgs == PhoneIdArgs \cup {IntArg(-12345678), NotInt}

FirstNameArgs == {Str(<<"B">>)}
LastNameArgs == {Str(<<"D">>), NotStr}

\* "A b" names the catalog service a_b
KnownServiceArgs == {Str(<<"A", " ", "b">>), NotStr}

\* "c" names no service of the catalog
ServiceNameArgs == KnownServiceArgs \cup {Str(<<"c">>)}

MaxMinute == MaxTime \div TicksPerMinute

\* the first and the last minute in the first layout, and text with seconds
DateTimeArgs ==
    {DateText(ParseFormats[1], 0), DateText(ParseFormats[1], MaxMinute),
     DateText(DATE_FORMAT, MaxMinute)}

CategoryArgs == {Str(<<"x">>)}
PriceArgs == {IntArg(45000), IntArg(-1)}
DurationArgs == {IntArg(60), IntArg(0)}
CurrencyArgs == {Str(<<"E", "U", "R">>), None}

----------------------------------------------------------------------------
(* The state machine *)

Call(op, result, out) == [op |-> op, result |-> result, out |-> out]

\* ServicesManager() with a catalog of one category and one service, and
\* AppointmentsManager(services_manager, appointments) with one appointment
\* that is in the future, seconds and all, when the managers are built
services_data ==
    << [category |-> <<"x">>,
        items |-> << [name |-> <<"a", "_", "b">>,
                      price |-> 45000,
                      currency |-> <<"E", "U", "R">>,
                      duration |-> 60,
                      description |-> <<"d">>] >>] >>

appointments_data ==
    << [phone_id |-> 10000000,
        first_name |-> <<"a">>,
        last_name |-> <<"d">>,
        service_name |-> <<"a", "_", "b">>,
        date_time |-> 1] >>

Init ==
    /\ services = services_data
    /\ default_currency = <<"E", "U", "R">>
    /\ appointments = appointments_data
    /\ now = 0
    /\ last = Call("init", "", <<>>)
    /\ file = MissingFile

add_appointment(phone_id, firstname, lastname, service_name, date_time) ==
    \E o \in {add_appointment_outcome(appointments, phone_id, firstname, lastname,
                                       service_name, date_time)} :
       /\ appointments' = o.appointments
       /\ last' = Call("add_appointment", o.result, <<>>)
       /\ UNCHANGED <<services, default_currency, now, file>>

update_appointment(phone_id, firstname, lastname, service_name, date_time) ==
    \E o \in {update_appointment_outcome(appointments, phone_id, firstname, lastname,
                                          service_name, date_time)} :
       /\ appointments' = o.appointments
       /\ last' = Call("update_appointment", o.result, <<>>)
       /\ UNCHANGED <<services, default_currency, now, file>>

find_appointment(phone_id) ==
    \E o \in {find_appointment_outcome(appointments, phone_id)} :
       /\ last' = Call("find_appointment", o.result, o.out)
       /\ UNCHANGED <<services, default_currency, appointments, now, file>>

remove_appointment(phone_id) ==
    \E o \in {remove_appointment_outcome(appointments, phone_id)} :
       /\ appointments' = o.appointments
       /\ last' = Call("remove_appointment", o.result, <<>>)
       /\ UNCHANGED <<services, default_currency, now, file>>

show_appointments(include_past) ==
    \E o \in {show_appointments_outcome(appointments, include_past)} :
       /\ last' = Call(IF include_past THEN "show_appointments(True)"
                       ELSE "show_appointments(False)", o.result, o.out)
       /\ UNCHANGED <<services, default_currency, appointments, now, file>>

add_service(category, name, price, duration, description, currency) ==
    \E o \in {add_service_outcome(category, name, price, duration, description, currency)} :
       /\ services' = o.services
       /\ last' = Call("add_service", o.result, <<>>)
       /\ UNCHANGED <<default_currency, appointments, now, file>>

\* variant of remove_service that also deletes the appointments that name
\* the removed service
remove_service_cascading(name) ==
    \E o \in {remove_service_outcome(name)} :
       /\ services' = o.services
       /\ appointments' =
              IF o.result = "SERVICE_REMOVED"
              THEN SelectSeq(appointments,
                             LAMBDA a : _normalize_name(Str(a.service_name))
                                            # _normalize_name(name))
              ELSE appointments
       /\ last' = Call("remove_service", o.result, <<>>)
       /\ UNCHANGED <<default_currency, now, file>>

remove_service(name) ==
    \E o \in {remove_service_outcome(name)} :
       /\ services' = o.services
       /\ last' = Call("remove_service", o.result, <<>>)
       /\ UNCHANGED <<default_currency, appointments, now, file>>

update_service(category, name, price, duration, description, currency) ==
    \E o \in {update_service_outcome(category, name, price, duration, description,
                                      currency)} :
       /\ services' = o.services
       /\ last' = Call("update_service", o.result, <<>>)
       /\ UNCHANGED <<default_currency, appointments, now, file>>

update_service_price(name, new_price, currency) ==
    \E o \in {update_service_price_outcome(name, new_price, currency)} :
       /\ services' = o.services
       /\ last' = Call("update_service_price", o.result, <<>>)
       /\ UNCHANGED <<default_currency, appointments, now, file>>

change_currency_for_all(new_currency) ==
    \E o \in {change_currency_for_all_outcome(new_currency)} :
       /\ services' = o.services
       /\ default_currency' = o.default_currency
       /\ last' = Call("change_currency_for_all", o.result, <<>>)
       /\ UNCHANGED <<appointments, now, file>>

\* validators.validate_phone_id, called on its own
validate(phone_id) ==
    /\ last' = Call("validate_phone_id", validate_phone_id(phone_id), <<phone_id>>)
    /\ UNCHANGED <<services, default_currency, appointments, now, file>>

save_appointments_to_json ==
    \E o \in {save_appointments_outcome(appointments)} :
       /\ file' = o.file
       /\ last' = Call("save_appointments_to_json", o.result, <<>>)
       /\ UNCHANGED <<services, default_currency, appointments, now>>

load_appointments_from_json ==
    \E o \in {load_appointments_outcome(appointments, file)} :
       /\ appointments' = o.appointments
       /\ last' = Call("load_appointments_from_json", o.result, <<>>)
       /\ UNCHANGED <<services, default_currency, now, file>>

\* the file is written, replaced or deleted from outside the program
WriteFile(content) ==
    /\ file' = content
    /\ last' = Call("write_file", "", <<>>)
    /\ UNCHANGED <<services, default_currency, appointments, now>>

get_popular_services(top_n) ==
    /\ last' = Call("get_popular_services", "", get_popular_services_outcome(appointments, top_n))
    /\ UNCHANGED <<services, default_currency, appointments, now, file>>

recommend_for_customer(phone_id) ==
    \E o \in recommend_for_customer_outcomes(appointments, phone_id) :
       /\ last' = Call("recommend_for_customer", o.result, o.out)
       /\ UNCHANGED <<services, default_currency, appointments, now, file>>

total_income ==
    /\ last' = Call("get_total_income", "", <<get_total_income>>)
    /\ UNCHANGED <<services, default_currency, appointments, now, file>>

show_finances ==
    \E o \in {show_finances_outcome(expenses_data)} :
       /\ last' = Call("show_finances", o.result, <<o>>)
       /\ UNCHANGED <<services, default_currency, appointments, now, file>>

\* the wall clock advances between calls
Tick ==
    /\ now < MaxTime
    /\ now' = now + 1
    /\ last' = Call("tick", "", <<>>)
    /\ UNCHANGED <<services, default_currency, appointments, file>>

\* what add_appointment and update_appointment are called with
AddServiceNameArgs == ServiceNameArgs \ {NotStr}
UpdateFirstNameArgs == FirstNameArgs \cup {None}
UpdateLastNameArgs == LastNameArgs \cup {None}
UpdateServiceNameArgs == (KnownServiceArgs \ {NotStr}) \cup {None}
UpdateDateTimeArgs == DateTimeArgs \cup {None}

Next ==
    \/ \E phone_id \in PhoneIdArgs, firstname \in FirstNameArgs, lastname \in LastNameArgs,
          service_name \in AddServiceNameArgs, date_time \in DateTimeArgs :
           add_appointment(phone_id, firstname, lastname, service_name, date_time)
    \/ \E phone_id \in StoredPhoneIdArgs, firstname \in UpdateFirstNameArgs,
          lastname \in UpdateLastNameArgs, service_name \in UpdateServiceNameArgs,
          date_time \in UpdateDateTimeArgs :
           update_appointment(phone_id, firstname, lastname, service_name, date_time)
    \/ \E phone_id \in AnyPhoneIdArgs : find_appointment(phone_id)
    \/ \E phone_id \in AnyPhoneIdArgs : remove_appointment(phone_id)
    \/ \E include_past \in BOOLEAN : show_appointments(include_past)
    \/ \E category \in CategoryArgs, name \in KnownServiceArgs, price \in PriceArgs,
          duration \in DurationArgs, currency \in CurrencyArgs :
           add_service(category, name, price, duration, Str(<<"d">>), currency)
    \/ \E name \in ServiceNameArgs : remove_service(name)
    \/ Tick

Spec == Init /\ [][Next]_vars

----------------------------------------------------------------------------
(* Arguments the properties range over: text of every kind the calls accept *)

ValidPhoneIdArgs == { id \in AnyPhoneIdArgs : validate_phone_id(id) = "OK" }
FirstNameText == { x \in FirstNameArgs : IsStr(x) }
LastNameText == { x \in LastNameArgs : IsStr(x) }
ServiceNameText == { x \in ServiceNameArgs : IsStr(x) }
DateTimeText == DateTimeArgs \cup {DateText(ParseFormats[2], MaxMinute)}

\* the appointments of a store other than the one under id, in order
Others(appts, id) == SelectSeq(appts, LAMBDA a : a.phone_id # id)

\* the messages with which update_appointment reports a rejected field
UpdateFieldErrors ==
    {"PROVIDED_NOT_STR", "SERVICE_NOT_FOUND", "INVALID_DATE_FORMAT", "PAST_APPT_NOT_ALLOWED"}

----------------------------------------------------------------------------
(* C1 *)

\* C1: an update_appointment call that returns an error (non-text name,
\* unknown service, unparsable date or date in the past) leaves every field
\* of every appointment exactly as it was before the call.
C1_FailedUpdateWritesNothing ==
    [][(last'.op = "update_appointment" /\ last'.result \in UpdateFieldErrors)
          => appointments' = appointments]_vars

----------------------------------------------------------------------------
(* C2 *)

\* C2: after a successful add_appointment(id, f, l, service, d) the stored
\* appointment has the lower-cased names, the parsed date and, as
\* service_name, the slug of the service (its key in the catalog), and
\* find_appointment(id) returns that appointment.
C2_AddStoresSlugAndIsFound ==
    \A id \in ValidPhoneIdArgs :
        id.n \notin Keys(appointments) =>
            \A f \in FirstNameText, l \in LastNameText, s \in ServiceNameText,
               d \in DateTimeText :
                LET o == add_appointment_outcome(appointments, id, f, l, s, d)
                IN o.result = "ADDED" =>
                       LET a == Details(o.appointments, id.n)
                           found == find_appointment_outcome(o.appointments, id)
                       IN /\ a.first_name = StrLower(f.val)
                          /\ a.last_name = StrLower(l.val)
                          /\ a.date_time = parse_datetime(d)
                          /\ a.service_name = StrReplace(StrLower(s.val), " ", "_")
                          /\ \E i \in 1..Len(services) :
                                 \E k \in 1..Len(services[i].items) :
                                     services[i].items[k].name = a.service_name
                          /\ found.result = "FOUND"
                          /\ found.out = <<_format_appointment(a)>>

----------------------------------------------------------------------------
(* C3 *)

\* C3: add_appointment with an id that is already in the store fails with
\* the duplicate-id error whatever the other (text) fields are and leaves the
\* store unchanged; the store holds one appointment per phone id.
C3_DuplicateIdRejected ==
    /\ \A i, j \in 1..Len(appointments) :
           appointments[i].phone_id = appointments[j].phone_id => i = j
    /\ \A id \in ValidPhoneIdArgs :
           id.n \in Keys(appointments) =>
               \A f \in FirstNameText, l \in LastNameText, s \in ServiceNameText,
                  d \in DateTimeText :
                   LET o == add_appointment_outcome(appointments, id, f, l, s, d)
                   IN o.result = "ALREADY_EXIST" /\ o.appointments = appointments

\* a duplicate add has just been rejected while two appointments are stored
C3_Witness ==
    /\ last.op = "add_appointment"
    /\ last.result = "ALREADY_EXIST"
    /\ Len(appointments) = 2

----------------------------------------------------------------------------
(* C4 *)

\* C4: add_appointment with text fields, a valid unused id, an existing
\* service and a parsable date fails with the past-appointment error and
\* leaves the store unchanged when the parsed date is strictly before the
\* clock, and is accepted when it is equal to or after the clock.
C4_PastRejectedPresentAccepted ==
    \A id \in ValidPhoneIdArgs :
        id.n \notin Keys(appointments) =>
            \A f \in FirstNameText, l \in LastNameText, s \in ServiceNameText,
               d \in DateTimeText :
                (service_exists(s) /\ parse_datetime(d) # NoDate) =>
                    LET o == add_appointment_outcome(appointments, id, f, l, s, d)
                    IN IF parse_datetime(d) < now
                       THEN o.result = "PAST_APPT_NOT_ALLOWED"
                            /\ o.appointments = appointments
                       ELSE o.result = "ADDED"
                            /\ Len(o.appointments) = Len(appointments) + 1

\* an add has just been rejected as lying in the past
C4_Witness ==
    /\ last.op = "add_appointment"
    /\ last.result = "PAST_APPT_NOT_ALLOWED"
    /\ now > 0

----------------------------------------------------------------------------
(* C5 *)

\* what update_appointment may be given for each field: text or nothing
FirstNamePatch == FirstNameText \cup {None}
LastNamePatch == LastNameText \cup {None}
ServiceNamePatch == ServiceNameText \cup {None}
KnownServicePatch == {Str(<<"A", " ", "b">>), None}
DateTimePatch == DateTimeText \cup {None}

\* C5 as stated: right after every successful add_appointment or
\* update_appointment, whatever fields the update supplied, the affected
\* appointment's date_time is not earlier than the clock at that call.
C5_DateNotPastAfterAnySuccess ==
    \A id \in ValidPhoneIdArgs :
        \A f \in FirstNamePatch, l \in LastNameText, s \in KnownServicePatch,
           d \in DateTimePatch :
            /\ LET o == add_appointment_outcome(appointments, id, f, l, s, d)
               IN o.result = "ADDED" => Details(o.appointments, id.n).date_time >= now
            /\ LET o == update_appointment_outcome(appointments, id, f, l, s, d)
               IN o.result = "UPDATED" => Details(o.appointments, id.n).date_time >= now

\* C5 as amended: right after a successful add_appointment, and after a
\* successful update_appointment that supplied date_time, the appointment's
\* date_time is the parsed one and not earlier than the clock at that call;
\* an update that omits date_time leaves date_time as it was.
C5_DateNotPastWhenSupplied ==
    \A id \in ValidPhoneIdArgs :
        \A f \in FirstNamePatch, l \in LastNameText, s \in KnownServicePatch,
           d \in DateTimePatch :
            /\ LET o == add_appointment_outcome(appointments, id, f, l, s, d)
               IN o.result = "ADDED" =>
                      /\ Details(o.appointments, id.n).date_time = parse_datetime(d)
                      /\ Details(o.appointments, id.n).date_time >= now
            /\ LET o == update_appointment_outcome(appointments, id, f, l, s, d)
               IN o.result = "UPDATED" =>
                      IF IsNone(d)
                      THEN Details(o.appointments, id.n).date_time
                               = Details(appointments, id.n).date_time
                      ELSE /\ Details(o.appointments, id.n).date_time = parse_datetime(d)
                           /\ Details(o.appointments, id.n).date_time >= now

\* an update has just succeeded after the clock moved, and the first
\* appointment carries a date that only date text can have produced
C5_Witness ==
    /\ last.op = "update_appointment"
    /\ last.result = "UPDATED"
    /\ now > 0
    /\ \E i \in 1..Len(appointments) :
           /\ appointments[i].first_name = <<"a">>
           /\ appointments[i].date_time = MaxMinute * TicksPerMinute

----------------------------------------------------------------------------
(* C6 *)

\* C6: after a successful update of id every omitted field keeps its value,
\* every supplied field holds the new validated value (the lower-cased name,
\* a name of the supplied service, the parsed date) and the appointments
\* under other ids are unchanged.
C6_UpdateIsSparsePatch ==
    \A id \in ValidPhoneIdArgs :
        id.n \in Keys(appointments) =>
            \A f \in FirstNamePatch, l \in LastNamePatch, s \in ServiceNamePatch,
               d \in DateTimePatch :
                LET o == update_appointment_outcome(appointments, id, f, l, s, d)
                    old == Details(appointments, id.n)
                IN o.result = "UPDATED" =>
                       LET new == Details(o.appointments, id.n)
                       IN /\ new.phone_id = old.phone_id
                          /\ new.first_name =
                                 IF IsNone(f) THEN old.first_name ELSE StrLower(f.val)
                          /\ new.last_name =
                                 IF IsNone(l) THEN old.last_name ELSE StrLower(l.val)
                          /\ IF IsNone(s) THEN new.service_name = old.service_name
                             ELSE _normalize_name(Str(new.service_name)) = _normalize_name(s)
                          /\ new.date_time =
                                 IF IsNone(d) THEN old.date_time ELSE parse_datetime(d)
                          /\ Len(o.appointments) = Len(appointments)
                          /\ IndexOf(o.appointments, id.n) = IndexOf(appointments, id.n)
                          /\ Others(o.appointments, id.n) = Others(appointments, id.n)

\* an update has just succeeded on an appointment that now carries a new
\* first name beside its original service and date, with a second
\* appointment in the store
C6_Witness ==
    /\ last.op = "update_appointment"
    /\ last.result = "UPDATED"
    /\ Len(appointments) = 2
    /\ \E i \in 1..Len(appointments) :
           /\ appointments[i].first_name = <<"b">>
           /\ appointments[i].service_name = <<"a", "_", "b">>
           /\ appointments[i].date_time = 1

----------------------------------------------------------------------------
(* C7 *)

\* C7: for a valid id that is not in the store update_appointment,
\* find_appointment and remove_appointment return not-found and leave the
\* store unchanged; for an id in the store remove_appointment deletes exactly
\* that appointment, and find_appointment(id) then returns not-found.
C7_NotFoundAndRemove ==
    \A id \in ValidPhoneIdArgs :
        IF id.n \notin Keys(appointments)
        THEN /\ \A f \in FirstNamePatch, l \in LastNamePatch \cup {NotStr},
                   s \in ServiceNamePatch, d \in {None, DateText(ParseFormats[1], MaxMinute)} :
                    LET o == update_appointment_outcome(appointments, id, f, l, s, d)
                    IN /\ o.result = "APPOINTMENT_DATA_NOT_FOUND"
                       /\ o.appointments = appointments
             /\ find_appointment_outcome(appointments, id)
                    = [result |-> "APPOINTMENT_DATA_NOT_FOUND", out |-> <<>>]
             /\ remove_appointment_outcome(appointments, id)
                    = [appointments |-> appointments,
                       result |-> "APPOINTMENT_DATA_NOT_FOUND"]
        ELSE LET o == remove_appointment_outcome(appointments, id)
             IN /\ o.result = "REMOVED"
                /\ id.n \notin Keys(o.appointments)
                /\ o.appointments = Others(appointments, id.n)
                /\ find_appointment_outcome(o.appointments, id).result
                       = "APPOINTMENT_DATA_NOT_FOUND"

\* an appointment has just been removed and another one is still stored
C7_Witness ==
    /\ last.op = "remove_appointment"
    /\ last.result = "REMOVED"
    /\ Len(appointments) = 1

----------------------------------------------------------------------------
(* C8 *)

\* the catalog holds, in some category, a service whose slug is that of name
CatalogHasSlug(name) ==
    \E i \in 1..Len(services) :
        \E k \in 1..Len(services[i].items) :
            StrReplace(StrLower(services[i].items[k].name), " ", "_")
                = StrReplace(StrLower(name.val), " ", "_")

\* a catalog in which services are added to the category "x" and to the
\* category named by the empty string, and appointments that name them
NextCatalog ==
    \/ \E category \in {Str(<<"x">>), Str(<<>>)} :
           add_service(category, Str(<<"A", " ", "b">>), IntArg(45000), IntArg(60),
                       Str(<<"d">>), Str(<<"E", "U", "R">>))
    \/ \E name \in ServiceNameText : remove_service(name)
    \/ \E service_name \in ServiceNameText :
           add_appointment(IntArg(99999999), Str(<<"B">>), Str(<<"D">>), service_name,
                           DateText(ParseFormats[1], MaxMinute))
    \/ \E service_name \in ServiceNamePatch :
           update_appointment(IntArg(10000000), None, None, service_name, None)
    \/ \E phone_id \in StoredPhoneIdArgs : remove_appointment(phone_id)

SpecCatalog == Init /\ [][NextCatalog]_vars

\* C8: add_appointment and update_appointment accept a service name exactly
\* when the catalog holds a service whose slug equals the slug of the name
\* (case-insensitively, spaces and underscores alike); otherwise they fail
\* with the unknown-service error and service_name is not written.
C8_ServiceAcceptedIffInCatalog ==
    \A s \in ServiceNameText :
        \A id \in ValidPhoneIdArgs :
            IF id.n \in Keys(appointments)
            THEN LET o == update_appointment_outcome(appointments, id, None, None, s, None)
                 IN IF CatalogHasSlug(s) THEN o.result = "UPDATED"
                    ELSE o.result = "SERVICE_NOT_FOUND" /\ o.appointments = appointments
            ELSE LET o == add_appointment_outcome(appointments, id, Str(<<"B">>),
                                                  Str(<<"D">>), s,
                                                  DateText(ParseFormats[1], MaxMinute))
                 IN IF CatalogHasSlug(s) THEN o.result = "ADDED"
                    ELSE o.result = "SERVICE_NOT_FOUND" /\ o.appointments = appointments

----------------------------------------------------------------------------
(* C9 *)

\* every appointment whose service is no longer in the catalog is still
\* found, displayed and updated in its other fields
OrphansServed ==
    \A i \in 1..Len(appointments) :
        ~service_exists(Str(appointments[i].service_name)) =>
            LET id == IntArg(appointments[i].phone_id)
                shown == show_appointments_outcome(appointments, TRUE).out
            IN /\ find_appointment_outcome(appointments, id).result = "FOUND"
               /\ \E k \in 1..Len(shown) : shown[k].phone_id = id.n
               /\ update_appointment_outcome(appointments, id, Str(<<"B">>), None, None,
                                             None).result = "UPDATED"

\* C9: a remove_service step leaves the appointment store unchanged; in the
\* state it leaves, an appointment that names a service no longer in the
\* catalog is still found, displayed and updated; and no step other than
\* remove_appointment takes an appointment out of the store.
C9_RemoveServiceDoesNotCascade ==
    [][/\ last'.op = "remove_service" => appointments' = appointments
       /\ last.op = "remove_service" => OrphansServed
       /\ last'.op # "remove_appointment" =>
              Keys(appointments) \subseteq Keys(appointments')]_vars

\* the only service has just been removed and an appointment still names it
C9_Witness ==
    /\ last.op = "remove_service"
    /\ last.result = "SERVICE_REMOVED"
    /\ \E i \in 1..Len(appointments) :
           ~service_exists(Str(appointments[i].service_name))

----------------------------------------------------------------------------
(* C10 *)

\* C10: show_appointments(False) displays exactly the appointments whose
\* date_time is not earlier than the clock at the call, show_appointments(True)
\* displays every appointment, and both display them in ascending date_time
\* order.
C10_ShowListsUpcomingInOrder ==
    \A include_past \in BOOLEAN :
        last.op = (IF include_past THEN "show_appointments(True)"
                   ELSE "show_appointments(False)") =>
            LET visible == { i \in 1..Len(appointments) :
                               include_past \/ appointments[i].date_time >= now }
            IN /\ Len(last.out) = Cardinality(visible)
               /\ { last.out[k].phone_id : k \in 1..Len(last.out) }
                      = { appointments[i].phone_id : i \in visible }
               /\ \A k \in 1..Len(last.out) :
                      last.out[k] = _format_appointment(
                                        Details(appointments, last.out[k].phone_id))
               /\ \A k \in 1..(Len(last.out) - 1) :
                      Details(appointments, last.out[k].phone_id).date_time
                          <= Details(appointments, last.out[k + 1].phone_id).date_time

\* the upcoming appointments have just been displayed: of two stored
\* appointments one, whose date the clock has passed, is left out
C10_Witness ==
    /\ last.op = "show_appointments(False)"
    /\ Len(appointments) = 2
    /\ Len(last.out) = 1
    /\ \E i \in 1..Len(appointments) : appointments[i].date_time < now

----------------------------------------------------------------------------
(* C11, C12 *)

\* one member of a JSON object: an appointment under a key
JsonMember(key, date_time) ==
    [key |-> key,
     details |-> [first_name |-> <<"c">>, last_name |-> <<"d">>,
                  service_name |-> <<"a", "_", "b">>, date_time |-> date_time]]

\* what may be found on disk besides what the program saved: no file, text
\* that is not JSON, a JSON array, and objects whose one member is an
\* appointment, has a key that is no number, or has a date without seconds
JsonFiles ==
    {MissingFile,
     [kind |-> "malformed", data |-> <<>>],
     [kind |-> "list", data |-> <<>>],
     [kind |-> "dict", data |-> <<JsonMember(str_of_int(20000000), <<DATE_FORMAT, 0>>)>>],
     [kind |-> "dict", data |-> <<JsonMember(<<"x">>, <<DATE_FORMAT, 0>>)>>],
     [kind |-> "dict", data |-> <<JsonMember(str_of_int(20000000), <<ParseFormats[1], 0>>)>>]}

\* the appointment store with its file: appointments come and go, the clock
\* advances, the store is saved and loaded and the file changes on disk
NextJson ==
    \/ \E date_time \in {DateText(ParseFormats[1], 0), DateText(ParseFormats[1], MaxMinute)} :
           add_appointment(IntArg(99999999), Str(<<"B">>), Str(<<"D">>),
                           Str(<<"A", " ", "b">>), date_time)
    \/ update_appointment(IntArg(10000000), Str(<<"B">>), None, None, None)
    \/ \E phone_id \in StoredPhoneIdArgs : remove_appointment(phone_id)
    \/ save_appointments_to_json
    \/ load_appointments_from_json
    \/ \E content \in JsonFiles : WriteFile(content)
    \/ Tick

SpecJson == Init /\ [][NextJson]_vars

\* C11: saving the store and loading the file that was written gives a store
\* with the same ids in the same order and, under each id, the same names
\* and service and the date_time of the original cut to the second.
C11_SaveLoadRoundTrip ==
    LET saved == save_appointments_outcome(appointments)
        o == load_appointments_outcome(<<>>, saved.file)
    IN /\ o.result = "LOADED"
       /\ Len(o.appointments) = Len(appointments)
       /\ \A i \in 1..Len(appointments) :
              /\ o.appointments[i].phone_id = appointments[i].phone_id
              /\ o.appointments[i].first_name = appointments[i].first_name
              /\ o.appointments[i].last_name = appointments[i].last_name
              /\ o.appointments[i].service_name = appointments[i].service_name
              /\ o.appointments[i].date_time
                     = (appointments[i].date_time \div TicksPerSecond) * TicksPerSecond

\* the store has just been loaded from the file it was saved to: two
\* appointments, the first of which lost the part of its date below the second
C11_Witness ==
    /\ last.op = "load_appointments_from_json"
    /\ last.result = "LOADED"
    /\ Len(appointments) = 2
    /\ file = save_appointments_outcome(appointments).file
    /\ appointments[1].phone_id = 10000000
    /\ appointments[1].date_time = 0

\* C12: load_appointments_from_json either replaces the store by the content
\* of the file (nothing of the store in memory survives) or, on any failure
\* (no file, malformed JSON, a top level that is no object, a member that
\* cannot be converted), returns a failure message and leaves the store as
\* it was.
C12_LoadReplacesOrReportsFailure ==
    \A f \in JsonFiles \cup {file} :
        LET o == load_appointments_outcome(appointments, f)
        IN \/ /\ o.result = "LOADED"
              /\ o.appointments = load_appointments_outcome(<<>>, f).appointments
              /\ Keys(o.appointments) = { int_of_str(f.data[k].key) : k \in 1..Len(f.data) }
           \/ /\ o.result \in {"APPOINTMENT_DATA_NOT_FOUND", "ERROR_DECODING_JSON",
                                 "INVALID_JSON_STRUCTURE"}
              /\ o.appointments = appointments

----------------------------------------------------------------------------
(* The stores that recommendations are computed from *)

\* extra bookings of one service in the stores of the scenario
MaxExtra == 2

\* distinct services in the stores that book every service once
MaxServices == 7

\* AppointmentsManager(services_manager, appointments): the store made of a
\* list of bookings <<first_name, service_name>>, the first under the phone
\* id 11112222 and the others under the ids that follow it
Booked(bookings) ==
    [i \in 1..Len(bookings) |->
        [phone_id |-> 11112221 + i,
         first_name |-> bookings[i][1],
         last_name |-> <<"d">>,
         service_name |-> bookings[i][2],
         date_time |-> 1]]

\* n bookings of a service by a customer
Times(n, first_name, service_name) == [i \in 1..n |-> <<first_name, service_name>>]

\* the services of the scenario (stone_massage, aroma_bath) and three more
stone_massage == <<"c", "_", "a">>
aroma_bath == <<"a", "_", "c">>
ExtraServices == << <<"b", "_", "a">>, <<"b", "_", "b">>, <<"b", "_", "c">> >>

\* the stores of the scenario: the customer "a d" books stone_massage under
\* 11112222, other customers book it four more times and aroma_bath twice;
\* two further services are booked up to MaxExtra times each before
\* aroma_bath is, and a third one after it
ScenarioStores ==
    { Booked(Times(1, <<"a">>, stone_massage)
             \o Times(n[1], <<"c">>, ExtraServices[1])
             \o Times(n[2], <<"c">>, ExtraServices[2])
             \o Times(4, <<"c">>, stone_massage)
             \o Times(2, <<"c">>, aroma_bath)
             \o Times(n[3], <<"c">>, ExtraServices[3]))
      : n \in [1..3 -> 0..MaxExtra] }

\* the i-th of the services that are booked once each; the first is the
\* service of the catalog, as a slug
ServiceText(i) == IF i = 1 THEN <<"a", "_", "b">> ELSE <<"c", DigitChars[i]>>

\* the stores in which k services are booked once each, the j-th by the
\* customer "a d" and the others by "c d"; k = 0 is the empty store
OnceEachStores ==
    { Booked([i \in 1..k |-> <<IF i = j THEN <<"a">> ELSE <<"c">>, ServiceText(i)>>])
      : k \in 0..MaxServices, j \in 1..MaxServices }

RecommendStores == ScenarioStores \cup OnceEachStores \cup {appointments_data}

InitRecommend ==
    /\ services = services_data
    /\ default_currency = <<"E", "U", "R">>
    /\ appointments \in RecommendStores
    /\ now = 0
    /\ last = Call("init", "", <<>>)
    /\ file = MissingFile

\* the phone ids of those stores, and three under which nothing is found
RecommendPhoneIdArgs ==
    { IntArg(11112221 + i) : i \in 1..(7 + 3 * MaxExtra + MaxServices) }
        \cup {IntArg(10000000), IntArg(99999999), IntArg(9999999), NotInt}

TopNArgs == {IntArg(-1), IntArg(0), IntArg(1), IntArg(DefaultTopN), NotInt}

\* recommendations are asked for over a store in which one more appointment
\* may be made
NextRecommend ==
    \/ \E top_n \in TopNArgs : get_popular_services(top_n)
    \/ \E phone_id \in RecommendPhoneIdArgs : recommend_for_customer(phone_id)
    \/ add_appointment(IntArg(99999999), Str(<<"B">>), Str(<<"D">>),
                       Str(<<"A", " ", "b">>), DateText(ParseFormats[1], MaxMinute))
    \/ Tick

SpecRecommend == InitRecommend /\ [][NextRecommend]_vars

\* the service names in the store, how often each is booked and where first
BookedServices == { appointments[i].service_name : i \in 1..Len(appointments) }
BookingsOf(service) ==
    Cardinality({ i \in 1..Len(appointments) : appointments[i].service_name = service })
FirstBooking(service) ==
    CHOOSE i \in 1..Len(appointments) :
        /\ appointments[i].service_name = service
        /\ \A j \in 1..(i - 1) : appointments[j].service_name # service

\* s1 is booked more often than s2, or as often and earlier for the first time
Outranks(s1, s2) ==
    \/ BookingsOf(s1) > BookingsOf(s2)
    \/ BookingsOf(s1) = BookingsOf(s2) /\ FirstBooking(s1) < FirstBooking(s2)

----------------------------------------------------------------------------
(* C13 *)

\* C13: for a positive integer top_n get_popular_services returns
\* min(top_n, number of distinct service_name values) pairs (service, count),
\* count being the number of appointments with that service_name whatever
\* their date, by descending count with ties in the order of first
\* occurrence in the store; for an empty store, and for a top_n that is
\* zero, negative or no integer, it returns the empty list.
C13_PopularServicesRanking ==
    /\ \A n \in 1..(MaxServices + 1) :
           LET r == get_popular_services_outcome(appointments, IntArg(n))
               listed == { r[k].service : k \in 1..Len(r) }
           IN /\ Len(r) = IF n < Cardinality(BookedServices) THEN n
                           ELSE Cardinality(BookedServices)
              /\ \A k \in 1..Len(r) :
                     /\ r[k].service \in BookedServices
                     /\ r[k].count = BookingsOf(r[k].service)
              /\ \A k \in 1..(Len(r) - 1) : Outranks(r[k].service, r[k + 1].service)
              /\ \A x \in BookedServices \ listed :
                     \A k \in 1..Len(r) : Outranks(r[k].service, x)
    /\ \A top_n \in {IntArg(0), IntArg(-1), NotInt} :
           get_popular_services_outcome(appointments, top_n) = <<>>

\* the three most popular services have just been returned after the clock
\* passed the appointments: the second and third are booked twice, as often
\* as aroma_bath, which was booked later for the first time and is left out
C13_Witness ==
    /\ last.op = "get_popular_services"
    /\ now > 1
    /\ Len(last.out) = 3
    /\ last.out[1] = [service |-> stone_massage, count |-> 5]
    /\ last.out[2] = [service |-> ExtraServices[1], count |-> 2]
    /\ last.out[3] = [service |-> ExtraServices[2], count |-> 2]
    /\ BookingsOf(aroma_bath) = 2

----------------------------------------------------------------------------
(* C14, C15 *)

\* the service that a stored or a displayed name names: its slug
ServiceOf(name) == denormalize_name(Str(name))

\* the services booked by anyone, and those booked under the first and last
\* name of the appointment under id
AllBooked == { ServiceOf(appointments[i].service_name) : i \in 1..Len(appointments) }
BookedByCustomerOf(id) ==
    { ServiceOf(appointments[i].service_name) : i \in
        { j \in 1..Len(appointments) :
            /\ appointments[j].first_name = Details(appointments, id).first_name
            /\ appointments[j].last_name = Details(appointments, id).last_name } }

\* C14: every service that recommend_for_customer(id) lists is booked by
\* some appointment and by no appointment, under any phone id, with the
\* first and last name of the appointment under id; when there is no such
\* service it reports that the customer has tried everything and lists
\* nothing.
C14_RecommendsOnlyUntried ==
    \A id \in Keys(appointments) :
        \A o \in recommend_for_customer_outcomes(appointments, IntArg(id)) :
            /\ \A k \in 1..Len(o.out) :
                   /\ ServiceOf(o.out[k].name) \in AllBooked
                   /\ ServiceOf(o.out[k].name) \notin BookedByCustomerOf(id)
            /\ AllBooked \subseteq BookedByCustomerOf(id) =>
                   o = [result |-> "TRIED_ALL", out |-> <<>>]

\* C15: when there are untried services, recommend_for_customer lists first
\* the untried services of get_popular_services(), in that order and marked
\* as popular, then at most 3 further untried services; at most 5 lines in
\* all, and no service twice.
C15_PopularFirstThenThreeAtMostFive ==
    \A id \in Keys(appointments) :
        \A o \in recommend_for_customer_outcomes(appointments, IntArg(id)) :
            o.result = "RECOMMENDED" =>
                LET popular == get_popular_services_outcome(appointments, IntArg(DefaultTopN))
                    untried_popular ==
                        SelectSeq([k \in 1..Len(popular) |-> ServiceOf(popular[k].service)],
                                  LAMBDA x : x \notin BookedByCustomerOf(id))
                    marked == SelectSeq(o.out, LAMBDA line : line.popular)
                    unmarked == SelectSeq(o.out, LAMBDA line : ~line.popular)
                IN /\ Len(o.out) <= RecommendationsShown
                   /\ o.out = marked \o unmarked
                   /\ [k \in 1..Len(marked) |-> ServiceOf(marked[k].name)] = untried_popular
                   /\ Len(unmarked) <= OtherServicesShown
                   /\ \A i, j \in 1..Len(o.out) :
                          ServiceOf(o.out[i].name) = ServiceOf(o.out[j].name) => i = j

----------------------------------------------------------------------------
(* C16 *)

\* the scenario: 11112222 books stone_massage, which is booked 5 times in
\* all, aroma_bath is booked twice and never under that customer's name
Scenario ==
    /\ 11112222 \in Keys(appointments)
    /\ Details(appointments, 11112222).service_name = stone_massage
    /\ BookingsOf(stone_massage) = 5
    /\ BookingsOf(aroma_bath) = 2
    /\ ServiceOf(aroma_bath) \notin BookedByCustomerOf(11112222)

\* a line for aroma_bath is in the list, before every line that does not
\* carry the mark of a popular service
AromaBathBeforeUnpopular(out) ==
    \E k \in 1..Len(out) :
        /\ out[k].name = recommendations_normalize_name(aroma_bath)
        /\ \A i \in 1..(k - 1) : out[i].popular

\* C16 as stated: in the scenario recommend_for_customer(11112222) lists
\* aroma_bath before any untried service that is not popular, whatever other
\* services are booked and however often.
C16_AromaBathFirstWhateverElse ==
    Scenario =>
        \A o \in recommend_for_customer_outcomes(appointments, IntArg(11112222)) :
            AromaBathBeforeUnpopular(o.out)

\* C16 as amended: in the scenario, when at most one service other than
\* stone_massage outranks aroma_bath (so that aroma_bath is one of the three
\* services of get_popular_services()), recommend_for_customer(11112222)
\* lists aroma_bath, marked as popular, before any untried service that is
\* not popular.
C16_AromaBathFirstWhenRanked ==
    (Scenario /\ Cardinality({ x \in BookedServices : Outranks(x, aroma_bath) }) <= 2) =>
        \A o \in recommend_for_customer_outcomes(appointments, IntArg(11112222)) :
            /\ AromaBathBeforeUnpopular(o.out)
            /\ \A k \in 1..Len(o.out) :
                   o.out[k].name = recommendations_normalize_name(aroma_bath)
                       => o.out[k].popular

\* the recommendations for 11112222 have just been listed in the scenario:
\* aroma_bath first, marked, and further down a service without the mark
C16_Witness ==
    /\ Scenario
    /\ last.op = "recommend_for_customer"
    /\ last.result = "RECOMMENDED"
    /\ last.out \in { o.out : o \in recommend_for_customer_outcomes(appointments,
                                                                    IntArg(11112222)) }
    /\ last.out[1] = [name |-> recommendations_normalize_name(aroma_bath), popular |-> TRUE]
    /\ \E k \in 1..Len(last.out) : ~last.out[k].popular

----------------------------------------------------------------------------
(* C17, C18 *)

\* prices of 150 and of 1.004
FinancePriceArgs == {IntArg(150000), IntArg(1004)}

\* services are priced, booked and removed, and the figures are asked for
NextFinance ==
    \/ \E name \in ServiceNameText, price \in FinancePriceArgs :
           add_service(Str(<<"x">>), name, price, IntArg(60), Str(<<"d">>),
                       Str(<<"E", "U", "R">>))
    \/ \E name \in ServiceNameText : remove_service(name)
    \/ \E service_name \in ServiceNameText :
           add_appointment(IntArg(99999999), Str(<<"B">>), Str(<<"D">>), service_name,
                           DateText(ParseFormats[1], MaxMinute))
    \/ \E phone_id \in StoredPhoneIdArgs : remove_appointment(phone_id)
    \/ total_income
    \/ show_finances
    \/ Tick

SpecFinance == Init /\ [][NextFinance]_vars

\* the price that the catalog has for the service an appointment names: that
\* of the first service, in catalog order, with the slug of the name; 0 when
\* there is none
CatalogPrice(service_name) ==
    LET hits == { p \in { <<i, k>> : i \in 1..Len(services), k \in 1..3 } :
                    /\ p[2] <= Len(services[p[1]].items)
                    /\ ServiceOf(services[p[1]].items[p[2]].name) = ServiceOf(service_name) }
    IN IF hits = {} THEN 0
       ELSE LET first == CHOOSE h \in hits :
                             \A q \in hits : h[1] < q[1] \/ (h[1] = q[1] /\ h[2] <= q[2])
            IN services[first[1]].items[first[2]].price

RECURSIVE SumOfPrices(_)
\* one term for each appointment of the store
SumOfPrices(appts) ==
    IF appts = <<>> THEN 0
    ELSE CatalogPrice(Head(appts).service_name) + SumOfPrices(Tail(appts))

\* C17 as stated: get_total_income equals the sum, over every appointment in
\* the store, past ones included, of the catalog price of the service it
\* names, an appointment whose service does not resolve counting zero.
C17_IncomeIsSumOfPrices ==
    get_total_income = SumOfPrices(appointments)

\* C17 as amended: get_total_income equals that sum rounded to two decimal
\* places.
C17_IncomeIsRoundedSumOfPrices ==
    get_total_income = round2(SumOfPrices(appointments))

\* the income has just been returned as 150: one appointment, which the
\* clock has passed, names the service priced 150, the other a service that
\* is no longer in the catalog
C17_Witness ==
    /\ last.op = "get_total_income"
    /\ last.out = <<150000>>
    /\ get_total_income = 150000
    /\ Len(appointments) = 2
    /\ \E i \in 1..2 : /\ CatalogPrice(appointments[i].service_name) = 150000
                         /\ appointments[i].date_time < now
    /\ \E i \in 1..2 : ~get_service_data(Str(appointments[i].service_name)).found

\* the expense ledgers: that of the program, one of 200 and an empty one
ExpenseLedgers == {expenses_data, <<200000>>, <<>>}

\* C18: get_net_profit equals get_total_income minus get_total_expenses
\* (income 150 and expenses 200 give -50); the profit margin is
\* net_profit / income * 100 when income > 0 and 0 when income is 0, and the
\* report is made without a division by zero.
C18_NetProfitAndMargin ==
    \A expenses \in ExpenseLedgers :
        LET o == show_finances_outcome(expenses)
        IN /\ get_net_profit(expenses) = get_total_income - get_total_expenses(expenses)
           /\ (get_total_income = 150000 /\ get_total_expenses(expenses) = 200000)
                  => get_net_profit(expenses) = -50000
           /\ o.result = "SHOWN"
           /\ o.net_profit = get_net_profit(expenses)
           /\ o.profit_margin = IF o.income > 0
                                 THEN [num |-> o.net_profit * 100, den |-> o.income]
                                 ELSE ZeroMargin

\* the report has just been made for a store without income: the margin
\* shown is 0 and the net profit is minus the expenses of the program
C18_Witness ==
    /\ last.op = "show_finances"
    /\ last.out[1].income = 0
    /\ last.out[1].profit_margin = ZeroMargin
    /\ last.out[1].net_profit = -650000

----------------------------------------------------------------------------
(* C19, C20 *)

\* the category of the seed catalog and one that it does not have
TwoCategoryArgs == {Str(<<"x">>), Str(<<"y">>)}

\* services are added to two categories, with good and bad prices and
\* durations, with and without a currency, and removed
NextServices ==
    \/ \E category \in TwoCategoryArgs, name \in ServiceNameText, price \in PriceArgs,
          duration \in DurationArgs, currency \in CurrencyArgs :
           add_service(category, name, price, duration, Str(<<"d">>), currency)
    \/ \E name \in ServiceNameText : remove_service(name)

SpecServices == Init /\ [][NextServices]_vars

\* the slug is a service of the category, in a catalog
InCategory(svcs, category, slug) ==
    \E i \in 1..Len(svcs) :
        /\ svcs[i].category = category
        /\ \E k \in 1..Len(svcs[i].items) : svcs[i].items[k].name = slug

\* the category keys of a catalog
Categories(svcs) == { svcs[i].category : i \in 1..Len(svcs) }

\* C19: add_service fails with the duplicate error if the slug already
\* exists within the target category and with the invalid-argument error if
\* the price is negative or the duration is not strictly positive; in every
\* failing case the catalog is unchanged, no empty category being created; a
\* slug that exists only in a different category does not make the add
\* fail, and a category that does not exist is created by a successful add.
C19_AddServiceFailuresLeaveCatalog ==
    \A category \in TwoCategoryArgs, name \in ServiceNameText, price \in PriceArgs,
       duration \in DurationArgs :
        LET o == add_service_outcome(category, name, price, duration, Str(<<"d">>),
                                     Str(<<"E", "U", "R">>))
            slug == _normalize_name(name).val
            invalid == price.n < 0 \/ duration.n <= 0
            duplicate == InCategory(services, category.val, slug)
        IN /\ invalid => o.result = "NEGATIVE_NUM_NOT_ALLOWED"
           /\ (duplicate /\ ~invalid) => o.result = "ALREADY_EXIST"
           /\ (invalid \/ duplicate) => o.services = services
           /\ (~invalid /\ ~duplicate) =>
                  /\ o.result = "SERVICE_ADDED"
                  /\ InCategory(o.services, category.val, slug)
                  /\ Categories(o.services) = Categories(services) \cup {category.val}

\* a service has just been added to a category that the add created, while
\* another category has a service of the same slug
C19_Witness ==
    /\ last.op = "add_service"
    /\ last.result = "SERVICE_ADDED"
    /\ Len(services) = 2
    /\ Len(services[2].items) = 1
    /\ InCategory(services, services[1].category, services[2].items[1].name)

\* C20: the currency argument of add_service is optional: a call with valid
\* arguments and no currency succeeds and stores the new service with the
\* default currency of the catalog.
C20_CurrencyIsOptional ==
    \A category \in TwoCategoryArgs, name \in ServiceNameText :
        LET o == add_service_outcome(category, name, IntArg(45000), IntArg(60),
                                     Str(<<"d">>), None)
            slug == _normalize_name(name).val
        IN ~InCategory(services, category.val, slug) =>
              /\ o.result = "SERVICE_ADDED"
              /\ \E i \in 1..Len(o.services) :
                    /\ o.services[i].category = category.val
                    /\ \E k \in 1..Len(o.services[i].items) :
                          /\ o.services[i].items[k].name = slug
                          /\ o.services[i].items[k].currency = default_currency

----------------------------------------------------------------------------
(* C21 *)

USD == <<"U", "S", "D">>

\* the currencies change_currency_for_all is called with, and a non-text
NewCurrencyArgs == {Str(USD), Str(<<"E", "U", "R">>), NotStr}

\* services are added to two categories, with a currency of their own or
\* with none, and removed, and the currency of all is changed
NextCurrency ==
    \/ \E category \in TwoCategoryArgs, name \in ServiceNameText,
          currency \in {Str(<<"D", "K", "K">>), None} :
           add_service(category, name, IntArg(45000), IntArg(60), Str(<<"d">>), currency)
    \/ \E name \in ServiceNameText : remove_service(name)
    \/ \E name \in ServiceNameText : update_service_price(name, IntArg(50000), None)
    \/ \E new_currency \in NewCurrencyArgs : change_currency_for_all(new_currency)

SpecCurrency == Init /\ [][NextCurrency]_vars

\* two catalogs have the same categories and services, equal in every field
\* but the currency
SameButCurrency(svcs1, svcs2) ==
    /\ Len(svcs1) = Len(svcs2)
    /\ \A i \in 1..Len(svcs1) :
          /\ svcs1[i].category = svcs2[i].category
          /\ Len(svcs1[i].items) = Len(svcs2[i].items)
          /\ \A k \in 1..Len(svcs1[i].items) :
                [svcs1[i].items[k] EXCEPT !.currency = <<>>]
                    = [svcs2[i].items[k] EXCEPT !.currency = <<>>]

\* C21: change_currency_for_all(c) with text c is one step after which
\* every service in every category has currency c and the default currency
\* of the catalog is c, with all prices, durations and descriptions
\* unchanged; with a non-text argument it returns an error and changes
\* neither any service nor the default currency.
C21_ChangeCurrencyForAll ==
    \A new_currency \in NewCurrencyArgs :
        LET o == change_currency_for_all_outcome(new_currency)
        IN IF IsStr(new_currency)
           THEN /\ o.result = "CURRENCY_CHANGED"
                /\ o.default_currency = new_currency.val
                /\ SameButCurrency(services, o.services)
                /\ \A i \in 1..Len(o.services) : \A k \in 1..Len(o.services[i].items) :
                      o.services[i].items[k].currency = new_currency.val
           ELSE /\ o.result = "PROVIDED_NOT_STR"
                /\ o.services = services
                /\ o.default_currency = default_currency

\* the currency of all has just been changed to USD in a catalog of two
\* categories, whose services had not all the same currency before; a
\* price differs from another
C21_Witness ==
    /\ last.op = "change_currency_for_all"
    /\ last.result = "CURRENCY_CHANGED"
    /\ default_currency = USD
    /\ Len(services) = 2
    /\ Len(services[1].items) = 2
    /\ Len(services[2].items) >= 1
    /\ services[1].items[1].price # services[1].items[2].price
    /\ \A i \in 1..2 : \A k \in 1..Len(services[i].items) :
          services[i].items[k].currency = USD

----------------------------------------------------------------------------
(* C22, C27 *)

\* a new price, a negative one and none
NewPriceArgs == {IntArg(50000), IntArg(-1), None}

\* a new duration, one of zero and none
NewDurationArgs == {IntArg(90), IntArg(0), None}

\* a new description, a non-text and none
NewDescriptionArgs == {Str(<<"e">>), NotStr, None}

\* a new currency, a non-text and none
UpdateCurrencyArgs == {Str(USD), NotStr, None}

\* the service a_b is added to two categories, updated and removed; "c"
\* names no service, and the category y is absent until a service is added
\* to it
NextUpdate ==
    \/ \E category \in TwoCategoryArgs :
           add_service(category, Str(<<"A", " ", "b">>), IntArg(45000), IntArg(60),
                       Str(<<"d">>), Str(<<"E", "U", "R">>))
    \/ \E category \in TwoCategoryArgs, name \in ServiceNameText, price \in NewPriceArgs,
          duration \in NewDurationArgs, description \in NewDescriptionArgs,
          currency \in UpdateCurrencyArgs :
           update_service(category, name, price, duration, description, currency)
    \/ \E name \in ServiceNameText, new_price \in NewPriceArgs,
          currency \in UpdateCurrencyArgs :
           update_service_price(name, new_price, currency)
    \/ \E name \in ServiceNameText : remove_service(name)

SpecUpdate == Init /\ [][NextUpdate]_vars

\* the messages with which a service call reports a failure
ServiceErrors ==
    {"PROVIDED_NOT_STR", "CATEGORY_NOT_FOUND", "SERVICE_NOT_FOUND_IN", "SERVICE_NOT_FOUND",
     "NEGATIVE_NUM_NOT_ALLOWED"}

\* C22: update_service, remove_service and update_service_price fail with
\* not-found when the category or the service slug is absent, and whenever
\* one of them returns an error (not-found, negative price, non-positive
\* duration, non-text description or currency) the catalog is exactly as it
\* was before the call, fields supplied with valid values before the
\* failing one included.
C22_FailedServiceCallWritesNothing ==
    \A name \in ServiceNameText, price \in NewPriceArgs, currency \in UpdateCurrencyArgs :
        LET slug == _normalize_name(name).val
            absent == \A i \in 1..Len(services) : ~InCategory(services, services[i].category, slug)
            removed == remove_service_outcome(name)
            priced == update_service_price_outcome(name, price, currency)
        IN /\ absent => removed.result = "SERVICE_NOT_FOUND"
           /\ absent => priced.result = "SERVICE_NOT_FOUND"
           /\ removed.result \in ServiceErrors => removed.services = services
           /\ priced.result \in ServiceErrors => priced.services = services
           /\ \A category \in TwoCategoryArgs, duration \in NewDurationArgs,
                 description \in NewDescriptionArgs :
                  LET updated == update_service_outcome(category, name, price, duration,
                                                        description, currency)
                  IN /\ category.val \notin Categories(services)
                         => updated.result = "CATEGORY_NOT_FOUND"
                     /\ (category.val \in Categories(services)
                           /\ ~InCategory(services, category.val, slug))
                         => updated.result = "SERVICE_NOT_FOUND_IN"
                     /\ updated.result \in ServiceErrors => updated.services = services

\* the first category, in catalog order, that has the slug; 0 when none has
FirstCategoryWith(slug) ==
    IF \E i \in 1..Len(services) : InCategory(services, services[i].category, slug)
    THEN CHOOSE i \in 1..Len(services) :
            /\ InCategory(services, services[i].category, slug)
            /\ \A j \in 1..(i - 1) : ~InCategory(services, services[j].category, slug)
    ELSE 0

----------------------------------------------------------------------------
(* C23 *)

\* how far the identifiers tried lie from the ends of the 8-digit range
Spread == 30

\* the integers around 0, around the first and around the last number of 8
\* digits, those of the scenario and their negatives, and a non-integer
PhoneIdSamples ==
    {NotInt} \cup
    { IntArg(n) : n \in ((0 - Spread)..Spread)
                        \cup ((10000000 - Spread)..(10000000 + Spread))
                        \cup ((99999999 - Spread)..(99999999 + Spread))
                        \cup ((-10000000 - Spread)..(-10000000 + Spread))
                        \cup {1234567, 12345678, -12345678, -1234567} }

NextValidate == \E phone_id \in PhoneIdSamples : validate(phone_id)

SpecValidate == Init /\ [][NextValidate]_vars

\* C23: validate_phone_id checks in a fixed order: the not-an-integer error
\* for a non-integer, otherwise the negative error for a value below zero,
\* before any check of length, otherwise the wrong-length error unless the
\* decimal form has exactly 8 digits; it passes exactly for the integers
\* from 10000000 to 99999999, so that 1234567 fails with wrong length,
\* -12345678 with negative, and 12345678 passes.
C23_ValidatePhoneIdOrder ==
    /\ last.op = "validate_phone_id" =>
          LET phone_id == last.out[1]
          IN last.result = IF ~phone_id.isint THEN "NOT_INT"
                           ELSE IF phone_id.n < 0 THEN "NEGATIVE"
                           ELSE IF phone_id.n < 10000000 \/ phone_id.n > 99999999
                           THEN "WRONG_LEN"
                           ELSE "OK"
    /\ validate_phone_id(IntArg(1234567)) = "WRONG_LEN"
    /\ validate_phone_id(IntArg(-12345678)) = "NEGATIVE"
    /\ validate_phone_id(IntArg(12345678)) = "OK"

\* -12345678, which has 8 digits, has just been rejected as negative
C23_Witness ==
    /\ last.op = "validate_phone_id"
    /\ last.out = <<IntArg(-12345678)>>
    /\ last.result = "NEGATIVE"

----------------------------------------------------------------------------
(* C24 *)

\* untried_services: the service names of the store, as they are stored,
\* without those of the appointments that have the first and last name of
\* the appointment under id
UntriedBy(id) ==
    { appointments[i].service_name : i \in 1..Len(appointments) }
        \ { appointments[i].service_name : i \in
              { j \in 1..Len(appointments) :
                  /\ appointments[j].first_name = Details(appointments, id).first_name
                  /\ appointments[j].last_name = Details(appointments, id).last_name } }

\* C24: the branch of recommend_for_customer that prints the favourites is
\* unreachable: whenever the untried set is not empty, the list of the
\* popular untried services followed by up to 3 other untried ones is not
\* empty, for every store.
C24_FavouritesBranchUnreachable ==
    \* what a call has printed, in every store and for every argument
    /\ last.op = "recommend_for_customer" =>
          /\ last.result # "FAVORITES"
          /\ last.result = "RECOMMENDED" => Len(last.out) >= 1
    \* what a call would print, in the stores that nothing was added to
    /\ last.op = "init" =>
          \A phone_id \in RecommendPhoneIdArgs :
              \A o \in recommend_for_customer_outcomes(appointments, phone_id) :
                  (/\ recommendations_validate_phone_id(appointments, phone_id) = "OK"
                   /\ UntriedBy(phone_id.n) # {})
                  => (o.result = "RECOMMENDED" /\ Len(o.out) >= 1)

\* recommendations have just been printed of which none is a popular
\* service: the three popular services were all tried by the customer, and
\* the list was filled from the other untried ones
C24_Witness ==
    /\ last.op = "recommend_for_customer"
    /\ last.result = "RECOMMENDED"
    /\ Len(last.out) >= 1
    /\ \A k \in 1..Len(last.out) : ~last.out[k].popular

----------------------------------------------------------------------------
(* C25 *)

\* appointments are added, updated and removed under identifiers valid and
\* invalid: of 7 digits, negative, not an integer
NextKeys ==
    \/ \E phone_id \in AnyPhoneIdArgs, lastname \in LastNameArgs,
          service_name \in AddServiceNameArgs, date_time \in DateTimeArgs :
           add_appointment(phone_id, Str(<<"B">>), lastname, service_name, date_time)
    \/ \E phone_id \in AnyPhoneIdArgs, firstname \in UpdateFirstNameArgs,
          lastname \in UpdateLastNameArgs, service_name \in UpdateServiceNameArgs,
          date_time \in UpdateDateTimeArgs :
           update_appointment(phone_id, firstname, lastname, service_name, date_time)
    \/ \E phone_id \in AnyPhoneIdArgs : remove_appointment(phone_id)
    \/ Tick

SpecKeys == Init /\ [][NextKeys]_vars

\* the keys of an appointment of the store: its id and the four fields
AppointmentFields == {"phone_id", "first_name", "last_name", "service_name", "date_time"}

\* C25: starting from a store whose keys are all valid phone identifiers,
\* after any sequence of add_appointment, update_appointment and
\* remove_appointment calls with arbitrary arguments every key of the store
\* is an integer between 10000000 and 99999999, and every stored
\* appointment has all four fields first_name, last_name, service_name and
\* date_time.
C25_KeysValidAndFieldsPresent ==
    \A i \in 1..Len(appointments) :
        /\ appointments[i].phone_id \in 10000000..99999999
        /\ validate_phone_id(IntArg(appointments[i].phone_id)) = "OK"
        /\ DOMAIN appointments[i] = AppointmentFields
        /\ \A j \in 1..Len(appointments) :
              appointments[i].phone_id = appointments[j].phone_id => i = j

\* an appointment has just been added beside the one of the seed, after
\* which the store has the two valid identifiers as its keys
C25_Witness ==
    /\ last.op = "add_appointment"
    /\ last.result = "ADDED"
    /\ Keys(appointments) = {10000000, 99999999}

----------------------------------------------------------------------------
(* C26 *)

\* the keys of the services of the catalog
CatalogKeys ==
    UNION { { services[i].items[k].name : k \in 1..Len(services[i].items) }
            : i \in 1..Len(services) }

\* C26: two appointments that reference the same catalog service are
\* counted as one service by get_popular_services and treated as one by
\* recommend_for_customer, whether the appointment came from the initial
\* data or was created or changed through add_appointment or
\* update_appointment: every service_name in the store is the exact catalog
\* key of the service it references.
C26_ServiceNameIsCatalogKey ==
    /\ \A i \in 1..Len(appointments) :
          service_exists(Str(appointments[i].service_name))
              => appointments[i].service_name \in CatalogKeys
    /\ \A i, j \in 1..Len(appointments) :
          _normalize_name(Str(appointments[i].service_name))
                = _normalize_name(Str(appointments[j].service_name))
              => appointments[i].service_name = appointments[j].service_name
    /\ \A i \in 1..Len(appointments) :
          LET popular == get_popular_services_outcome(appointments, IntArg(Len(appointments)))
              same == { j \in 1..Len(appointments) :
                          _normalize_name(Str(appointments[j].service_name))
                              = _normalize_name(Str(appointments[i].service_name)) }
          IN \E k \in 1..Len(popular) :
                /\ popular[k].service = appointments[i].service_name
                /\ popular[k].count = Cardinality(same)

====
